---- MODULE Spec2Model ----
(***************************************************************************)
(* Ingestion worker: the scheduler with its circuit breaker (worker.ts)    *)
(* and the ingestion cycle (lib/ingest.ts).                                *)
(*                                                                         *)
(* Times are whole seconds.  The source works in milliseconds; every       *)
(* duration it uses is a multiple of 1000 ms, so the scaling changes no    *)
(* comparison.  NULL stands for a null Date.                               *)
(*                                                                         *)
(* An async function is modelled as a process whose position (pc) names    *)
(* the await it is suspended at; the code between two awaits runs as one   *)
(* action, as on the single-threaded event loop.  A store or RPC call is   *)
(* an await whose outcome (resolve / reject) is chosen by the environment. *)
(***************************************************************************)
EXTENDS Integers, Sequences, FiniteSets, TLC

VARIABLES
    \* ---- worker.ts ----
    clock,                    \* wall clock, seconds
    mainPc,                   \* position of main()
    startup,                  \* what validateStartup found, the exit code, the timers set
    nextIngestAt,             \* next firing time of the stats setInterval
    inv,                      \* inv[i]: position of the runOnce invocation in slot i (0 = the one main awaits)
    runRow,                   \* runRow[i]: IngestionRun row of the invocation in slot i
                              \* ("finished": finishedAt is set; "snapshot": finished and
                              \* a NetworkSnapshot row refers to it)
    ingestionFailureCount,
    circuitBreakerOpen,
    circuitBreakerOpenTime,
    failedInARow,             \* history: failed cycles completed since the last successful one
    gate,                     \* history: gate[i], what the breaker check did for the invocation in slot i
    effect,                   \* history: effect[i], what the settling of that invocation did to the breaker
    overlapped,               \* history: some timer tick fired while an earlier invocation was unsettled
    dbHealthy,                \* dbHealthy[i]: what checkDatabaseConnection returned in slot i ("none": not yet)
    \* ---- lib/ingest.ts ----
    pnode,                    \* pnode[p]: the Pnode row of the peer with pubkey p
    cyc,                      \* cyc[c]: position and locals of the c-th call of runIngestionCycle
    seedSt,                   \* seedSt[<<c, s>>]: the per-seed async function of cycle c
    branch,                   \* branch[<<c, s>>][k]: the per-pod async function of seed s in cycle c
    probe,                    \* probe[c][j]: the per-task async function of Stage D, in task order
    faults,                   \* store operations rejected so far
    scope,                    \* which family of runs is explored, see Scopes
    \* ---- lib/cleanup.ts ----
    tableRows,                \* tableRows[t][tm]: rows of table t whose time column holds tm
    cl,                       \* position and locals of the call of checkAndCleanupIfNeeded
    \* ---- lib/ingest/credits.ts ----
    snap,                     \* snap[p]: observedAt of the PodCreditsSnapshot rows of pod p, in insertion order
    cr,                       \* cr[r]: position and locals of the call of ingestCredits in slot r
    nextCreditsAt,            \* next firing time of the credits setInterval
    \* ---- pure functions and the RPC client ----
    rate,                     \* samples given to the rate derivation, and what it returned
    net,                      \* peers given to computeNetworkMetrics, and the snapshot it wrote
    rpc                       \* one call of prpcCall: its request, timer and promise

workerVars == <<mainPc, startup, nextIngestAt, inv, runRow,
                ingestionFailureCount, circuitBreakerOpen, circuitBreakerOpenTime,
                failedInARow, gate, effect, overlapped, dbHealthy>>

cycleVars == <<pnode, cyc, seedSt, branch, probe, faults, scope>>

cleanupVars == <<tableRows, cl>>

creditsVars == <<snap, cr, nextCreditsAt>>

calcVars == <<rate, net, rpc>>

vars == <<clock, workerVars, cycleVars, cleanupVars, creditsVars, calcVars>>

NULL == 0 - 1

\* ---- bounds of the model ----
MaxInFlight == 2       \* timer-started invocations that may be unsettled at once
MAX_SAFE_INTEGER == 8  \* Number.MAX_SAFE_INTEGER (2^53 - 1), scaled
METRICS_BATCH_SIZE == 1 \* page size of computeNetworkMetrics (500 in the source), scaled
SKIP_LIMIT == 1        \* its safety limit on skip (100000 in the source), scaled
MaxObs == 2            \* recent observations one seed holds
MaxRuns == 2           \* ingestion runs whose metrics are computed
NowSeconds == 1000     \* Date.now() / 1000 of a call of computeNetworkMetrics
MaxChunks == 2         \* data events of one response
MaxLate == 3           \* events counted after the timer has fired
MaxClock == 1200       \* the scheduler's clock stops advancing here
ClockStep == 120       \* granularity of the scheduler's clock
NumSeeds == 2          \* seeds of DEFAULT_SEEDS that are modelled
NumPeers == 2          \* distinct pubkeys
MaxCycles == 2         \* calls of runIngestionCycle that may overlap
MaxFaults == 1         \* store operations that may reject in one behaviour
MaxFailureCount == 6   \* a probe of a task carrying this failureCount does not fail

\* ---- program constants ----
INGEST_INTERVAL_SECONDS == 240
CIRCUIT_BREAKER_THRESHOLD == 5
CIRCUIT_BREAKER_RESET_TIME == 300

BATCH_SIZE == 1         \* 50 in the source; scaled so that a cycle has several batches
MaxPods == 2           \* longest gossip view

\* Longest task list of the model.
MaxTasks == NumSeeds * MaxPods

(***************************************************************************)
(*                              worker.ts                                  *)
(***************************************************************************)
Invocations == 0 .. MaxInFlight
TimerSlots == Invocations \ {0}

InFlightPcs == {"create", "cycle", "update", "seedStats", "metrics", "catchUpdate"}
FinalPcs == {"ok", "failed", "skipped", "unhealthy"}

\* The breaker state as one value, so that the synchronous code that
\* rewrites it can be written as functions of it.
Breaker == [count |-> ingestionFailureCount,
            open |-> circuitBreakerOpen,
            openTime |-> circuitBreakerOpenTime]

SetBreaker(b) ==
    /\ ingestionFailureCount' = b.count
    /\ circuitBreakerOpen' = b.open
    /\ circuitBreakerOpenTime' = b.openTime

\* Mutant: the elapsed time is compared with the ingest interval.
BreakerBlocks_WrongWindow(b, now) ==
    /\ b.open
    /\ b.openTime # NULL
    /\ now - b.openTime < INGEST_INTERVAL_SECONDS

\* runOnceWithCircuitBreaker, lines 312-318: the tick is skipped.
BreakerBlocks(b, now) ==
    /\ b.open
    /\ b.openTime # NULL
    /\ now - b.openTime < CIRCUIT_BREAKER_RESET_TIME

\* Mutant: the reset branch forgets the failure counter.
BreakerAfterCheck_KeepsCount(b, now) ==
    IF b.open /\ b.openTime # NULL /\ ~(now - b.openTime < CIRCUIT_BREAKER_RESET_TIME)
    THEN [count |-> b.count, open |-> FALSE, openTime |-> NULL]
    ELSE b

\* runOnceWithCircuitBreaker, lines 319-325: the reset branch.
BreakerAfterCheck(b, now) ==
    IF b.open /\ b.openTime # NULL /\ ~(now - b.openTime < CIRCUIT_BREAKER_RESET_TIME)
    THEN [count |-> 0, open |-> FALSE, openTime |-> NULL]
    ELSE b

\* runOnce's catch, line 90.
RunOnceCatch(b) == [b EXCEPT !.count = b.count + 1]

\* runOnce's success tail, line 88.
RunOnceSuccess(b) == [b EXCEPT !.count = 0]

\* Mutant: a success resets the counter but leaves the breaker open.
WrapperSuccess_KeepsOpen(b) == [b EXCEPT !.count = 0]

\* runOnceWithCircuitBreaker's try tail, lines 331-337.
WrapperSuccess(b) ==
    IF b.open THEN [count |-> 0, open |-> FALSE, openTime |-> NULL]
    ELSE [b EXCEPT !.count = 0]

\* runOnceWithCircuitBreaker's catch, lines 338-349.
WrapperCatch(b, now) ==
    LET n == b.count + 1 IN
    IF n >= CIRCUIT_BREAKER_THRESHOLD /\ ~b.open
    THEN [count |-> n, open |-> TRUE, openTime |-> now]
    ELSE [b EXCEPT !.count = n]

\* What the caller of runOnce does when runOnce settles: main (i = 0) only
\* logs a rejection, the timer callback goes through the wrapper.
Resolved(i, b) == IF i = 0 THEN b ELSE WrapperSuccess(b)
Rejected(i, b, now) == IF i = 0 THEN b ELSE WrapperCatch(b, now)

\* The caller's continuation once runOnce has rejected.
SettleRejected(i) ==
    /\ inv' = [inv EXCEPT ![i] = "failed"]
    /\ SetBreaker(Rejected(i, Breaker, clock))
    /\ failedInARow' = failedInARow + 1
    /\ effect' = [effect EXCEPT ![i] =
                     IF Rejected(i, Breaker, clock).open /\ ~circuitBreakerOpen
                     THEN "opened" ELSE "none"]

\* The caller's continuation once runOnce has resolved.
SettleResolved(i) ==
    /\ inv' = [inv EXCEPT ![i] = "ok"]
    /\ SetBreaker(Resolved(i, RunOnceSuccess(Breaker)))
    /\ failedInARow' = 0
    /\ effect' = [effect EXCEPT ![i] =
                     IF circuitBreakerOpen /\ ~Resolved(i, RunOnceSuccess(Breaker)).open
                     THEN "closed" ELSE "none"]

\* validateStartup, lines 235-279: nothing is known yet.
IdleStartup == [db |-> "none", seedsFailed |-> 0, seedOk |-> FALSE,
                exitCode |-> NULL, timers |-> {}]

WorkerIdle ==
    /\ mainPc = "start"
    /\ startup = IdleStartup
    /\ nextIngestAt = NULL
    /\ inv = [i \in Invocations |-> "unborn"]
    /\ runRow = [i \in Invocations |-> "none"]
    /\ ingestionFailureCount = 0
    /\ circuitBreakerOpen = FALSE
    /\ circuitBreakerOpenTime = NULL
    /\ failedInARow = 0
    /\ gate = [i \in Invocations |-> "none"]
    /\ effect = [i \in Invocations |-> "none"]
    /\ overlapped = FALSE
    /\ dbHealthy = [i \in Invocations |-> "none"]

\* validateStartup, line 255: DEFAULT_SEEDS.slice(0, 3).
SEEDS_TESTED == 3

AfterSeedFailure_GoesOn(st) ==
    [pc |-> IF st.seedsFailed + 1 < SEEDS_TESTED THEN "seeds" ELSE "validated",
     st |-> [st EXCEPT !.seedsFailed = @ + 1]]

\* validateStartup, lines 268-277, and main, lines 121-125: a tested seed
\* failed or timed out; the next one is tried, or validateStartup throws and
\* main calls process.exit(1).
AfterSeedFailure(st) ==
    IF st.seedsFailed + 1 < SEEDS_TESTED
    THEN [pc |-> "seeds", st |-> [st EXCEPT !.seedsFailed = @ + 1]]
    ELSE [pc |-> "exited", st |-> [st EXCEPT !.seedsFailed = @ + 1, !.exitCode = 1]]

\* validateStartup, lines 239-246, and main, lines 119-125: SELECT 1 settles.
ValidateDbDone ==
    /\ mainPc = "start"
    /\ \E ok \in BOOLEAN :
          IF ok
          THEN /\ mainPc' = "seeds"
               /\ startup' = [startup EXCEPT !.db = "ok"]
          ELSE /\ mainPc' = "exited"
               /\ startup' = [startup EXCEPT !.db = "failed", !.exitCode = 1]
    /\ UNCHANGED <<calcVars, creditsVars, cleanupVars, cycleVars, clock, nextIngestAt, inv, runRow,
                   ingestionFailureCount, circuitBreakerOpen, circuitBreakerOpenTime,
                   failedInARow, gate, effect, overlapped, dbHealthy>>

\* validateStartup, lines 255-277: the race of getPods with the 5 s timeout
\* settles for the seed under test.
ValidateSeedDone ==
    /\ mainPc = "seeds"
    /\ \E ok \in BOOLEAN :
          IF ok
          THEN /\ mainPc' = "validated"
               /\ startup' = [startup EXCEPT !.seedOk = TRUE, !.seedsFailed = 0]
          ELSE /\ mainPc' = AfterSeedFailure(startup).pc
               /\ startup' = AfterSeedFailure(startup).st
    /\ UNCHANGED <<calcVars, creditsVars, cleanupVars, cycleVars, clock, nextIngestAt, inv, runRow,
                   ingestionFailureCount, circuitBreakerOpen, circuitBreakerOpenTime,
                   failedInARow, gate, effect, overlapped, dbHealthy>>

\* main, line 128: await runOnce(); runOnce runs up to its first await
\* (prisma.ingestionRun.create).
MainRunOnce ==
    /\ mainPc = "validated"
    /\ mainPc' = "initial"
    /\ inv' = [inv EXCEPT ![0] = "create"]
    /\ UNCHANGED <<calcVars, creditsVars, cleanupVars, cycleVars, clock, startup, nextIngestAt, runRow,
                   ingestionFailureCount, circuitBreakerOpen, circuitBreakerOpenTime,
                   failedInARow, gate, effect, overlapped, dbHealthy>>

\* A slot is free once the invocation in it has settled.
FreeSlots == {i \in TimerSlots : inv[i] \in FinalPcs \cup {"unborn"}}

TimerDue == mainPc = "timers" /\ clock >= nextIngestAt

\* Time passes.  A due timer fires before more time passes.
Tick ==
    /\ clock + ClockStep <= MaxClock
    /\ ~TimerDue
    /\ clock' = clock + ClockStep
    /\ UNCHANGED <<calcVars, creditsVars, cleanupVars, cycleVars, mainPc, startup, nextIngestAt, inv, runRow, ingestionFailureCount,
                   circuitBreakerOpen, circuitBreakerOpenTime, failedInARow, gate, effect,
                   overlapped, dbHealthy>>

\* main, lines 154-158: the interval callback calls runOnceWithCircuitBreaker,
\* which runs up to the await in checkDatabaseConnection (line 287).
IngestTimer ==
    /\ TimerDue
    /\ FreeSlots # {}
    /\ LET i == CHOOSE j \in FreeSlots : \A k \in FreeSlots : j <= k IN
          /\ inv' = [inv EXCEPT ![i] = "ping"]
          /\ runRow' = [runRow EXCEPT ![i] = "none"]
          /\ gate' = [gate EXCEPT ![i] = "none"]
          /\ effect' = [effect EXCEPT ![i] = "none"]
          /\ dbHealthy' = [dbHealthy EXCEPT ![i] = "none"]
    /\ nextIngestAt' = nextIngestAt + INGEST_INTERVAL_SECONDS
    /\ overlapped' = (overlapped \/ FreeSlots # TimerSlots)
    /\ UNCHANGED <<calcVars, creditsVars, cleanupVars, cycleVars, clock, mainPc, startup, ingestionFailureCount,
                   circuitBreakerOpen, circuitBreakerOpenTime, failedInARow>>

\* runOnceWithCircuitBreaker, lines 311-330, entered once the store answered:
\* the breaker check and, unless the tick is skipped, the call of runOnce up
\* to its first await.
CheckBreakerAndRun(i) ==
    IF BreakerBlocks(Breaker, clock)
    THEN /\ inv' = [inv EXCEPT ![i] = "skipped"]
         /\ gate' = [gate EXCEPT ![i] = "blocked"]
         /\ UNCHANGED <<ingestionFailureCount, circuitBreakerOpen, circuitBreakerOpenTime>>
    ELSE /\ inv' = [inv EXCEPT ![i] = "create"]
         /\ gate' = [gate EXCEPT ![i] = IF circuitBreakerOpen THEN "reset" ELSE "pass"]
         /\ SetBreaker(BreakerAfterCheck(Breaker, clock))

Proceed_IgnoresHealth(i, healthy) == CheckBreakerAndRun(i)

\* runOnceWithCircuitBreaker, lines 305-309: with dbHealthy false the call
\* throws before the breaker is looked at and before runOnce is called.
Proceed(i, healthy) ==
    IF healthy
    THEN CheckBreakerAndRun(i)
    ELSE /\ inv' = [inv EXCEPT ![i] = "unhealthy"]
         /\ UNCHANGED <<ingestionFailureCount, circuitBreakerOpen,
                        circuitBreakerOpenTime, gate>>

\* checkDatabaseConnection, lines 286-294: SELECT 1 settles; when it rejects,
\* the reconnect is started.
PingDone(i) ==
    /\ inv[i] = "ping"
    /\ \E ok \in BOOLEAN :
          IF ok
          THEN /\ dbHealthy' = [dbHealthy EXCEPT ![i] = "true"]
               /\ Proceed(i, TRUE)
          ELSE /\ inv' = [inv EXCEPT ![i] = "reconnect"]
               /\ UNCHANGED <<ingestionFailureCount, circuitBreakerOpen,
                              circuitBreakerOpenTime, gate, dbHealthy>>
    /\ UNCHANGED <<calcVars, creditsVars, cleanupVars, cycleVars, clock, mainPc, startup, nextIngestAt, runRow, failedInARow, effect, overlapped>>

\* checkDatabaseConnection, lines 291-300: $disconnect and $connect settle;
\* the function returns whether both resolved.
ReconnectDone(i) ==
    /\ inv[i] = "reconnect"
    /\ \E ok \in BOOLEAN :
          /\ dbHealthy' = [dbHealthy EXCEPT ![i] = IF ok THEN "true" ELSE "false"]
          /\ Proceed(i, ok)
    /\ UNCHANGED <<calcVars, creditsVars, cleanupVars, cycleVars, clock, mainPc, startup, nextIngestAt, runRow, failedInARow, effect, overlapped>>

\* runOnce, lines 33-46: ingestionRun.create settles.  It is awaited outside
\* the try block, so its rejection reaches the caller without runOnce's catch.
CreateDone(i) ==
    /\ inv[i] = "create"
    /\ \E ok \in BOOLEAN :
          IF ok
          THEN /\ inv' = [inv EXCEPT ![i] = "cycle"]
               /\ runRow' = [runRow EXCEPT ![i] = "started"]
               /\ UNCHANGED <<ingestionFailureCount, circuitBreakerOpen,
                              circuitBreakerOpenTime, failedInARow, effect>>
          ELSE /\ SettleRejected(i)
               /\ UNCHANGED runRow
    /\ UNCHANGED <<calcVars, creditsVars, cleanupVars, cycleVars, clock, mainPc, startup, nextIngestAt, gate, overlapped, dbHealthy>>

\* runOnce's catch, lines 89-96, up to the await of the finishedAt update.
EnterCatch(i) ==
    /\ inv' = [inv EXCEPT ![i] = "catchUpdate"]
    /\ SetBreaker(RunOnceCatch(Breaker))
    /\ UNCHANGED <<runRow, failedInARow, effect>>

\* runOnce, lines 46-59: runIngestionCycle settles.
CycleDone(i) ==
    /\ inv[i] = "cycle"
    /\ \E ok \in BOOLEAN :
          IF ok
          THEN /\ inv' = [inv EXCEPT ![i] = "update"]
               /\ UNCHANGED <<runRow, ingestionFailureCount, circuitBreakerOpen,
                              circuitBreakerOpenTime, failedInARow, effect>>
          ELSE EnterCatch(i)
    /\ UNCHANGED <<calcVars, creditsVars, cleanupVars, cycleVars, clock, mainPc, startup, nextIngestAt, gate, overlapped, dbHealthy>>

\* runOnce, lines 49-73: ingestionRun.update settles.
UpdateDone(i) ==
    /\ inv[i] = "update"
    /\ \E ok \in BOOLEAN :
          IF ok
          THEN /\ inv' = [inv EXCEPT ![i] = "seedStats"]
               /\ runRow' = [runRow EXCEPT ![i] = "finished"]
               /\ UNCHANGED <<ingestionFailureCount, circuitBreakerOpen,
                              circuitBreakerOpenTime, failedInARow, effect>>
          ELSE EnterCatch(i)
    /\ UNCHANGED <<calcVars, creditsVars, cleanupVars, cycleVars, clock, mainPc, startup, nextIngestAt, gate, overlapped, dbHealthy>>

\* runOnce, lines 62-78: ingestionRunSeedStats.createMany settles.
SeedStatsDone(i) ==
    /\ inv[i] = "seedStats"
    /\ \E ok \in BOOLEAN :
          IF ok
          THEN /\ inv' = [inv EXCEPT ![i] = "metrics"]
               /\ UNCHANGED <<runRow, ingestionFailureCount, circuitBreakerOpen,
                              circuitBreakerOpenTime, failedInARow, effect>>
          ELSE EnterCatch(i)
    /\ UNCHANGED <<calcVars, creditsVars, cleanupVars, cycleVars, clock, mainPc, startup, nextIngestAt, gate, overlapped, dbHealthy>>

MetricsFailed_Rethrows(i) == EnterCatch(i)

\* runOnce, lines 80-88: the rejection of computeNetworkMetrics is caught and
\* logged; runOnce goes on to its success tail.
MetricsFailed(i) ==
    /\ SettleResolved(i)
    /\ UNCHANGED runRow

\* runOnce, lines 77-88, and computeNetworkMetrics, lines 185-230: the one
\* networkSnapshot.create at the end of computeNetworkMetrics stores the
\* snapshot of the run, or computeNetworkMetrics rejects without one; runOnce
\* resolves either way and its caller continues.
MetricsDone(i) ==
    /\ inv[i] = "metrics"
    /\ \E ok \in BOOLEAN :
          IF ok
          THEN /\ runRow' = [runRow EXCEPT ![i] = "snapshot"]
               /\ SettleResolved(i)
          ELSE MetricsFailed(i)
    /\ UNCHANGED <<calcVars, creditsVars, cleanupVars, cycleVars, clock, mainPc, startup, nextIngestAt, gate, overlapped, dbHealthy>>

\* runOnce, lines 92-100: the finishedAt update settles, the error is
\* rethrown and the caller's catch runs.
CatchUpdateDone(i) ==
    /\ inv[i] = "catchUpdate"
    /\ \E ok \in BOOLEAN :
          runRow' = [runRow EXCEPT ![i] = IF ok THEN "finished" ELSE @]
    /\ SettleRejected(i)
    /\ UNCHANGED <<calcVars, creditsVars, cleanupVars, cycleVars, clock, mainPc, startup, nextIngestAt, gate, overlapped, dbHealthy>>

(***************************************************************************)
(*                        lib/ingest.ts                                    *)
(*                                                                         *)
(* A peer is named by its pubkey p \in Peers; its Pnode id is p as well    *)
(* (pubkey is unique, the upsert maps it to one row).  A gossip view is a  *)
(* sequence of pods, each given by its pubkey, 0 for a pod without one.    *)
(***************************************************************************)
Seeds == 1 .. NumSeeds
Peers == 1 .. NumPeers
Cycles == 1 .. MaxCycles

DaySeconds == 24 * 60 * 60
StartTime == 3 * DaySeconds

\* computeNextBackoff, lines 11-14.
Pow2(n) == IF n = 0 THEN 1 ELSE IF n = 1 THEN 2 ELSE IF n = 2 THEN 4
           ELSE IF n = 3 THEN 8 ELSE IF n = 4 THEN 16 ELSE 32

Min(a, b) == IF a <= b THEN a ELSE b

computeNextBackoff(failureCount, baseSeconds) ==
    LET cappedFailures == Min(failureCount, 5)
    IN  baseSeconds * Pow2(cappedFailures)

\* A Pnode row as prisma creates it (schema defaults), and before it exists.
NoRow == [exists |-> FALSE, failureCount |-> 0, nextStatsAllowedAt |-> NULL,
          lastStatsAttemptAt |-> NULL, lastStatsSuccessAt |-> NULL,
          isPublic |-> FALSE]

NewRow == [NoRow EXCEPT !.exists = TRUE]

\* Rows that earlier cycles can have left in the store when the model starts:
\* never seen; probed successfully one interval ago; failing with an expired
\* backoff; failing with a backoff still running; failing and not seen for
\* more than a day (worker outage).
StoredRows ==
    { NoRow,
      [exists |-> TRUE, failureCount |-> 0,
       nextStatsAllowedAt |-> StartTime - INGEST_INTERVAL_SECONDS + 60,
       lastStatsAttemptAt |-> StartTime - INGEST_INTERVAL_SECONDS,
       lastStatsSuccessAt |-> StartTime - INGEST_INTERVAL_SECONDS,
       isPublic |-> FALSE],
      [exists |-> TRUE, failureCount |-> 2,
       nextStatsAllowedAt |-> StartTime,
       lastStatsAttemptAt |-> StartTime - computeNextBackoff(2, 60),
       lastStatsSuccessAt |-> NULL, isPublic |-> FALSE],
      [exists |-> TRUE, failureCount |-> 3,
       nextStatsAllowedAt |-> StartTime + INGEST_INTERVAL_SECONDS,
       lastStatsAttemptAt |-> StartTime + INGEST_INTERVAL_SECONDS
                                - computeNextBackoff(3, 60),
       lastStatsSuccessAt |-> NULL, isPublic |-> FALSE],
      [exists |-> TRUE, failureCount |-> 5,
       nextStatsAllowedAt |-> StartTime - 2 * DaySeconds,
       lastStatsAttemptAt |-> StartTime - 2 * DaySeconds
                                - computeNextBackoff(5, 60),
       lastStatsSuccessAt |-> NULL, isPublic |-> FALSE] }

\* The gossip views a seed answers getPods with: a sequence of pubkeys, 0 for
\* a pod that has none.
GossipViews == { <<>>, <<1>>, <<1, 2>>, <<1, 1>>, <<0, 2>> }

\* Two families of runs are explored.  In "oneCycle" a single call of
\* runIngestionCycle meets every gossip view and every stored row; in
\* "overlap" up to MaxCycles calls run concurrently (setInterval does not wait
\* for the previous call) in a network of one peer.
\* A third family, "recurring", is explored by SpecRecurring: one call after
\* the other without end, in a network of one peer that seed 1 always reports.
Scopes == {"oneCycle", "overlap"}
OnePeerViews == { <<1>> }
ViewsIn(sc) == IF sc = "oneCycle" THEN GossipViews ELSE OnePeerViews

\* The is_public field of the pods that gossip reports for a peer: peer 1 is
\* reported with is_public true, the others without the field.
is_public(p) == IF p = 1 THEN "true" ELSE "undefined"

\* lines 131, 135: is_public ?? false
OrFalse(v) == IF v = "undefined" THEN FALSE ELSE v = "true"

\* lines 128-137: the upsert creates the row or updates the one there is; it
\* writes isPublic either way.
upsert(row, p) ==
    [(IF row.exists THEN row ELSE NewRow) EXCEPT !.isPublic = OrFalse(is_public(p))]

\* A stored row carries the isPublic that the upsert of an earlier cycle wrote.
WithPublic(stored) ==
    [p \in Peers |-> IF stored[p].exists THEN upsert(stored[p], p) ELSE stored[p]]

RowsIn(sc) ==
    IF sc = "oneCycle" THEN {WithPublic(stored) : stored \in [Peers -> StoredRows]}
    ELSE {WithPublic(stored) : stored \in
             {rows \in [Peers -> StoredRows] : \A p \in Peers \ {1} : rows[p] = NoRow}}

WithPubkey_KeepsAll(pods) == pods

\* lines 109-111: pods.filter((pod) => pod.pubkey)
RECURSIVE WithPubkey(_)
WithPubkey(pods) ==
    IF pods = <<>> THEN <<>>
    ELSE IF Head(pods) = 0 THEN WithPubkey(Tail(pods))
    ELSE <<Head(pods)>> \o WithPubkey(Tail(pods))

BranchFinal_OnlyFulfilled == {"task", "backoff"}

BranchFinal == {"task", "backoff", "rejUpsert", "rejGossip", "rejRead", "rejReset"}
ProbeFinal == {"success", "failure", "rejected"}

IdleSeed == [pc |-> "idle", pods |-> <<>>]

CycleIdle ==
    /\ cyc = [c \in Cycles |-> [pc |-> "idle", now |-> NULL, oneDayAgo |-> NULL,
                                stored |-> [p \in Peers |-> 0]]]
    /\ seedSt = [cs \in Cycles \X Seeds |-> IdleSeed]
    /\ branch = [cs \in Cycles \X Seeds |-> <<>>]
    /\ probe = [c \in Cycles |-> <<>>]
    /\ faults = 0

(***************************************************************************)
(*                 lib/cleanup.ts: threshold-driven cleanup                *)
(***************************************************************************)

\* constants.ts lines 20-22, scaled.
GOSSIP_OBSERVATION_THRESHOLD == 4    \* 1,000,000 in the source
STATS_SAMPLE_THRESHOLD == 2          \* 500,000 in the source
INGESTION_RUN_THRESHOLD == 2         \* 10,000 in the source

\* constants.ts lines 25 and 28, 0.9 and 0.7 written as percentages.
CLEANUP_TRIGGER_PERCENT == 90
CLEANUP_TARGET_PERCENT == 70

MaxTime == 3           \* distinct values of a table's time column
Times == 1 .. MaxTime

\* The three tables, in the order in which the code handles them, and the
\* time column of each is the index of tableRows[t].
Tables == <<"PnodeGossipObservation", "PnodeStatsSample", "IngestionRun">>
TableIds == 1 .. Len(Tables)

Threshold(t) ==
    CASE Tables[t] = "PnodeGossipObservation" -> GOSSIP_OBSERVATION_THRESHOLD
      [] Tables[t] = "PnodeStatsSample" -> STATS_SAMPLE_THRESHOLD
      [] Tables[t] = "IngestionRun" -> INGESTION_RUN_THRESHOLD

ExceedsTarget_UsesTrigger(t, n) == n * 100 > Threshold(t) * CLEANUP_TRIGGER_PERCENT

\* lines 18-26: count > threshold * CLEANUP_TRIGGER_PERCENT.
ExceedsTrigger(t, n) == n * 100 > Threshold(t) * CLEANUP_TRIGGER_PERCENT

\* lines 59-67: Math.floor(threshold * CLEANUP_TARGET_PERCENT).
Target(t) == (Threshold(t) * CLEANUP_TARGET_PERCENT) \div 100

\* lines 70, 87, 104: current > target.
ExceedsTarget(t, n) == n > Target(t)

\* prisma.<table>.count() on a table's content.
RECURSIVE CountUpTo(_, _)
CountUpTo(tab, tm) == IF tm < 1 THEN 0 ELSE tab[tm] + CountUpTo(tab, tm - 1)

RowCount(tab) == CountUpTo(tab, MaxTime)

findNthOldestDate_OffsetLess(tab, n) ==
    LET reached == {tm \in Times : CountUpTo(tab, tm) > n - 1}
    IN IF reached = {} THEN NULL
       ELSE CHOOSE tm \in reached : \A other \in reached : tm <= other

findNthOldestDate_Newest(tab, n) ==
    LET reached == {tm \in Times : RowCount(tab) - CountUpTo(tab, tm - 1) > n}
    IN IF reached = {} THEN NULL
       ELSE CHOOSE tm \in reached : \A other \in reached : tm >= other

\* lines 123-137: ORDER BY the time column ASC LIMIT 1 OFFSET n, the time of
\* the row with n rows before it, or null when the table has at most n rows.
findNthOldestDate(tab, n) ==
    LET reached == {tm \in Times : CountUpTo(tab, tm) > n}
    IN IF reached = {} THEN NULL
       ELSE CHOOSE tm \in reached : \A other \in reached : tm <= other

deleteMany_Lte(tab, cutoffDate) ==
    [tm \in Times |-> IF tm <= cutoffDate THEN 0 ELSE tab[tm]]

\* lines 79-81, 96-98, 113-115: deleteMany where the time column is lt cutoffDate.
deleteMany(tab, cutoffDate) ==
    [tm \in Times |-> IF tm < cutoffDate THEN 0 ELSE tab[tm]]

\* The rows a table holds at most in the model; a table may grow beyond its
\* threshold, which is only a number the counts are compared with.
Capacity == <<4, 3, 2>>

TableContents(t) ==
    {tab \in [Times -> 0 .. Capacity[t]] : RowCount(tab) <= Capacity[t]}

EmptyTable == [tm \in Times |-> 0]

\* lines 11-56: the locals of a call: the table being handled, the counts
\* read, needsCleanup, cutoffDate, and the tables deleteMany was called on.
\* History: inserted, a row was inserted since the call started; quiet, the
\* call started directly after a call that returned, and no row was inserted
\* since that earlier call started.
IdleCleanup ==
    [pc |-> "idle", table |-> 0, count |-> [t \in TableIds |-> NULL],
     needsCleanup |-> FALSE, cutoffDate |-> NULL, cleaned |-> {},
     inserted |-> FALSE, quiet |-> FALSE]

CleanupIdle ==
    /\ tableRows = [t \in TableIds |-> EmptyTable]
    /\ cl = IdleCleanup

(***************************************************************************)
(*                 lib/ingest/credits.ts: credits ingestion                *)
(*                                                                         *)
(* An entry of pods_credits is given by the pubkey of its pod_id, by 0     *)
(* when pod_id is missing or credits is not a number, and by NULL when     *)
(* the entry itself is null.                                               *)
(***************************************************************************)

\* constants.ts line 5.
CREDITS_INTERVAL_SECONDS == 7200

NumCreditPods == 1       \* pod_ids that occur in the credits document
MaxEntries == 2          \* longest pods_credits array
MaxCreditRuns == 2       \* calls of ingestCredits that may be unsettled at once
CreditsSteps == 5        \* the clock of the credits runs advances at most this often

CreditPods == 1 .. NumCreditPods
CreditRuns == 1 .. MaxCreditRuns

\* line 12: 2 * 60 * 60 * 1000 ms.
TwoHours == 2 * 60 * 60

CreditsStartTime == TwoHours
CreditsClockStep == TwoHours \div 2
MaxCreditsClock == CreditsStartTime + CreditsSteps * CreditsClockStep

\* lines 20-29: what getStorageCredits resolves with: a pods_credits array, or
\* a payload that has none.
Entries == CreditPods \cup {0, NULL}
Documents == UNION {[1 .. n -> Entries] : n \in 0 .. MaxEntries}

\* lines 10-16: the locals of a call.  fetched tells how the fetch ended.
IdleCredits ==
    [pc |-> "idle", now |-> NULL, fetched |-> "none", doc |-> <<>>, i |-> 0,
     totalProcessed |-> 0, totalSkipped |-> 0, totalErrors |-> 0]

\* lines 43-46: findFirst where podPubkey, orderBy observedAt desc.
RECURSIVE MaxOf(_)
MaxOf(times) ==
    IF times = <<>> THEN NULL
    ELSE LET rest == MaxOf(Tail(times))
         IN IF rest = NULL \/ Head(times) >= rest THEN Head(times) ELSE rest

latestSnapshot(rowsOfPod) == MaxOf(rowsOfPod)

TooRecent_Never(latest, twoHoursAgo) == FALSE

\* lines 48-51: latestSnapshot && latestSnapshot.observedAt > twoHoursAgo.
TooRecent(latest, twoHoursAgo) == latest # NULL /\ latest > twoHoursAgo

CreditsIdle ==
    /\ snap = [p \in CreditPods |-> <<>>]
    /\ cr = [r \in CreditRuns |-> IdleCredits]
    /\ nextCreditsAt = NULL

(***************************************************************************)
(*      The pure functions and the RPC client, when they are not run       *)
(***************************************************************************)
IdleRate == [pc |-> "idle"]
IdleNet == [pc |-> "idle"]
IdleRpc == [pc |-> "idle"]

CalcIdle ==
    /\ rate = IdleRate
    /\ net = IdleNet
    /\ rpc = IdleRpc

\* The worker has not started; the store holds the rows of earlier cycles.
CycleInit ==
    /\ clock = StartTime
    /\ scope \in Scopes
    /\ pnode \in RowsIn(scope)
    /\ CycleIdle
    /\ WorkerIdle
    /\ CleanupIdle
    /\ CreditsIdle
    /\ CalcIdle

\* The worker starts on an empty store.
WorkerInit ==
    /\ clock = 0
    /\ scope = "oneCycle"
    /\ pnode = [p \in Peers |-> NoRow]
    /\ CycleIdle
    /\ WorkerIdle
    /\ CleanupIdle
    /\ CreditsIdle
    /\ CalcIdle

\* A store operation may reject while the fault budget lasts.
StoreOutcomes == IF faults < MaxFaults THEN {TRUE, FALSE} ELSE {TRUE}
Count(ok) == faults' = IF ok THEN faults ELSE faults + 1

\* The pods of seed s in cycle c that have a pubkey, and the peer of branch k.
PodsOf(c, s) == WithPubkey(seedSt[<<c, s>>].pods)
PeerOf(c, s, k) == PodsOf(c, s)[k]

SetCyc(c, pc) == cyc' = [cyc EXCEPT ![c].pc = pc]
SetBranch(c, s, k, pc, fc) ==
    branch' = [branch EXCEPT ![<<c, s>>][k].pc = pc, ![<<c, s>>][k].failureCount = fc]
SetProbe(c, j, pc) == probe' = [probe EXCEPT ![c][j].pc = pc]

\* worker.ts: the next timer period has passed and runOnce calls
\* runIngestionCycle, which runs up to the await of resetStaleBackoffStates
\* (lines 45-50, 20-23).  Nothing makes a call wait for the previous one.
StartCycle(c) ==
    /\ cyc[c].pc = "idle"
    /\ c > 1 => (scope = "overlap" /\ cyc[c - 1].pc # "idle")
    /\ clock' = IF c = 1 THEN clock ELSE clock + INGEST_INTERVAL_SECONDS
    /\ cyc' = [cyc EXCEPT ![c].pc = "stageA", ![c].oneDayAgo = clock' - DaySeconds]
    /\ UNCHANGED <<calcVars, creditsVars, cleanupVars, workerVars, pnode, seedSt, branch, probe, faults, scope>>

\* resetStaleBackoffStates, lines 23-36: the rows the updateMany rewrites.
Stale(row, oneDayAgo) ==
    /\ row.exists
    /\ row.nextStatsAllowedAt # NULL
    /\ row.nextStatsAllowedAt < oneDayAgo
    /\ row.failureCount > 0

ResetStale_KeepsDeadline(rows, oneDayAgo) ==
    [p \in Peers |->
        IF Stale(rows[p], oneDayAgo)
        THEN [rows[p] EXCEPT !.failureCount = 0]
        ELSE rows[p]]

ResetStale(rows, oneDayAgo) ==
    [p \in Peers |->
        IF Stale(rows[p], oneDayAgo)
        THEN [rows[p] EXCEPT !.failureCount = 0, !.nextStatsAllowedAt = NULL]
        ELSE rows[p]]

\* lines 50-73: the updateMany settles; on success `now` is taken and every
\* seed's async function runs up to its await of getPods.  A rejection
\* rejects runIngestionCycle.
StageADone(c) ==
    /\ cyc[c].pc = "stageA"
    /\ \E ok \in StoreOutcomes :
          /\ Count(ok)
          /\ IF ok
             THEN /\ pnode' = ResetStale(pnode, cyc[c].oneDayAgo)
                  /\ cyc' = [cyc EXCEPT ![c].pc = "fanout", ![c].now = clock,
                                         ![c].stored = [p \in Peers |->
                                                           pnode'[p].failureCount]]
                  /\ seedSt' = [cs \in Cycles \X Seeds |->
                                   IF cs[1] = c THEN [pc |-> "getPods", pods |-> <<>>]
                                   ELSE seedSt[cs]]
             ELSE /\ SetCyc(c, "rejected")
                  /\ UNCHANGED <<pnode, seedSt>>
    /\ UNCHANGED <<calcVars, creditsVars, cleanupVars, workerVars, clock, branch, probe, scope>>

\* lines 71-112: getPods settles.  On an error the seed's function returns
\* its zero record (lines 85-92); otherwise every pod with a pubkey gets its
\* async function, which runs up to the await of the upsert.
GetPodsDone(c, s) ==
    /\ seedSt[<<c, s>>].pc = "getPods"
    /\ \/ /\ ~(scope = "recurring" /\ s = 1)
          /\ seedSt' = [seedSt EXCEPT ![<<c, s>>].pc = "failed"]
          /\ UNCHANGED branch
       \/ \E view \in ViewsIn(scope) :
             /\ seedSt' = [seedSt EXCEPT ![<<c, s>>] = [pc |-> "pods", pods |-> view]]
             /\ branch' = [branch EXCEPT ![<<c, s>>] =
                              [k \in 1 .. Len(WithPubkey(view)) |->
                                  [pc |-> "upsert", failureCount |-> 0,
                                   observedAt |-> NULL]]]
    /\ UNCHANGED <<calcVars, creditsVars, cleanupVars, workerVars, clock, pnode, cyc, probe, faults, scope>>

Branches(c, s) == 1 .. Len(branch[<<c, s>>])

\* lines 128-145: the upsert settles.
UpsertDone(c, s, k) ==
    /\ k \in Branches(c, s)
    /\ branch[<<c, s>>][k].pc = "upsert"
    /\ \E ok \in StoreOutcomes :
          /\ Count(ok)
          /\ IF ok
             THEN /\ pnode' = [pnode EXCEPT ![PeerOf(c, s, k)] =
                                  upsert(@, PeerOf(c, s, k))]
                  /\ SetBranch(c, s, k, "gossip", 0)
             ELSE /\ SetBranch(c, s, k, "rejUpsert", 0)
                  /\ UNCHANGED pnode
    /\ UNCHANGED <<calcVars, creditsVars, cleanupVars, workerVars, clock, cyc, seedSt, probe, scope>>

AfterGossip_GoesOn(b, ok, now) ==
    [b EXCEPT !.pc = "read", !.observedAt = IF ok THEN now ELSE NULL]

\* lines 145-171: the awaited create wrote the row with observedAt: now and
\* the branch goes on to findUnique, or it rejected and the branch rejects.
AfterGossip(b, ok, now) ==
    IF ok THEN [b EXCEPT !.pc = "read", !.observedAt = now]
    ELSE [b EXCEPT !.pc = "rejGossip"]

\* lines 145-173: the pnodeGossipObservation.create settles.
GossipDone(c, s, k) ==
    /\ k \in Branches(c, s)
    /\ branch[<<c, s>>][k].pc = "gossip"
    /\ \E ok \in StoreOutcomes :
          /\ Count(ok)
          /\ branch' = [branch EXCEPT ![<<c, s>>][k] = AfterGossip(@, ok, cyc[c].now)]
    /\ UNCHANGED <<calcVars, creditsVars, cleanupVars, workerVars, clock, pnode, cyc, seedSt, probe, scope>>

\* lines 179-192: the eligibility decision on the row that was read.
InBackoff(row, now) ==
    row.nextStatsAllowedAt # NULL /\ row.nextStatsAllowedAt > now

NeedsDelayedReset(row, now) ==
    /\ row.nextStatsAllowedAt # NULL
    /\ row.nextStatsAllowedAt <= now
    /\ row.failureCount > 0

\* lines 171-208: the findUnique settles and the decision is taken.
ReadDone(c, s, k) ==
    /\ k \in Branches(c, s)
    /\ branch[<<c, s>>][k].pc = "read"
    /\ \E ok \in StoreOutcomes :
          /\ Count(ok)
          /\ LET row == pnode[PeerOf(c, s, k)] IN
             IF ~ok THEN SetBranch(c, s, k, "rejRead", 0)
             ELSE IF InBackoff(row, cyc[c].now) THEN SetBranch(c, s, k, "backoff", 0)
             ELSE IF NeedsDelayedReset(row, cyc[c].now)
                  THEN SetBranch(c, s, k, "reset", row.failureCount)
             ELSE SetBranch(c, s, k, "task", row.failureCount)
    /\ UNCHANGED <<calcVars, creditsVars, cleanupVars, workerVars, clock, pnode, cyc, seedSt, probe, scope>>

\* lines 188-208: the delayed-reset update settles.
ResetDone(c, s, k) ==
    /\ k \in Branches(c, s)
    /\ branch[<<c, s>>][k].pc = "reset"
    /\ \E ok \in StoreOutcomes :
          /\ Count(ok)
          /\ IF ok
             THEN /\ pnode' = [pnode EXCEPT ![PeerOf(c, s, k)].failureCount = 0,
                                            ![PeerOf(c, s, k)].nextStatsAllowedAt = NULL]
                  /\ SetBranch(c, s, k, "task", branch[<<c, s>>][k].failureCount)
             ELSE /\ SetBranch(c, s, k, "rejReset", 0)
                  /\ UNCHANGED pnode
    /\ UNCHANGED <<calcVars, creditsVars, cleanupVars, workerVars, clock, cyc, seedSt, probe, scope>>

\* lines 215-229: the tasks a seed returns, in pod order.
RECURSIVE TasksFrom(_, _, _)
TasksFrom(c, s, k) ==
    IF k > Len(branch[<<c, s>>]) THEN <<>>
    ELSE (IF branch[<<c, s>>][k].pc = "task"
          THEN << [pnodeId |-> PeerOf(c, s, k), seed |-> s,
                   failureCount |-> branch[<<c, s>>][k].failureCount] >>
          ELSE <<>>) \o TasksFrom(c, s, k + 1)

\* The branches of cycle c that are at one of the positions pcs, and the
\* peers they are about.
BranchesAt(c, pcs) ==
    {sk \in Seeds \X (1 .. MaxPods) :
        /\ sk[2] \in Branches(c, sk[1])
        /\ branch[<<c, sk[1]>>][sk[2]].pc \in pcs}

PeersAt(c, pcs) == {PeerOf(c, sk[1], sk[2]) : sk \in BranchesAt(c, pcs)}

\* lines 61, 183: the cycle's backoff set.
backoffPnodeIds(c) == PeersAt(c, {"backoff"})

globalObservedPnodeIds_AttemptedOnly(c) == PeersAt(c, {"reset", "task"})

\* lines 63, 142: the peers whose upsert resolved.
globalObservedPnodeIds(c) ==
    PeersAt(c, {"gossip", "read", "reset", "task", "backoff",
                "rejGossip", "rejRead", "rejReset"})

ZeroCounts == [pods |-> 0, statsTasks |-> <<>>, attempted |-> 0, backoff |-> 0, observed |-> 0]

SeedResult_FailedCounted(c, s) ==
    IF seedSt[<<c, s>>].pc = "failed"
    THEN [ZeroCounts EXCEPT !.attempted = 1]
    ELSE ZeroCounts

\* lines 85-92 and 231-238: the record a seed's function returns.
SeedResult(c, s) ==
    IF seedSt[<<c, s>>].pc = "failed"
    THEN ZeroCounts
    ELSE [pods |-> Len(seedSt[<<c, s>>].pods),
          statsTasks |-> TasksFrom(c, s, 1),
          attempted |-> Cardinality({k \in Branches(c, s) :
                                        branch[<<c, s>>][k].pc = "task"}),
          backoff |-> Cardinality({k \in Branches(c, s) :
                                      branch[<<c, s>>][k].pc = "backoff"}),
          observed |-> Cardinality({PeerOf(c, s, k) : k \in
                                      {i \in Branches(c, s) :
                                          branch[<<c, s>>][i].pc \notin
                                              {"upsert", "rejUpsert"}}})]

\* lines 265-281: allStatsTasks, in seed order.
RECURSIVE AllStatsTasksFrom(_, _)
AllStatsTasksFrom(c, s) ==
    IF s > NumSeeds THEN <<>>
    ELSE SeedResult(c, s).statsTasks \o AllStatsTasksFrom(c, s + 1)

AllStatsTasks(c) == AllStatsTasksFrom(c, 1)

\* lines 283-291: keep the first task per pnodeId.
RECURSIVE UniqueFrom(_, _)
UniqueFrom(tasks, seen) ==
    IF tasks = <<>> THEN <<>>
    ELSE IF Head(tasks).pnodeId \in seen THEN UniqueFrom(Tail(tasks), seen)
    ELSE <<Head(tasks)>> \o UniqueFrom(Tail(tasks), seen \cup {Head(tasks).pnodeId})

Deduplicate_KeepsAll(tasks) == tasks

Deduplicate(tasks) == UniqueFrom(tasks, {})

\* line 293: statsAttempts.
statsAttempts(c) == Len(Deduplicate(AllStatsTasks(c)))

SeedSettled(c, s) ==
    \/ seedSt[<<c, s>>].pc = "failed"
    \/ /\ seedSt[<<c, s>>].pc = "pods"
       /\ \A k \in Branches(c, s) : branch[<<c, s>>][k].pc \in BranchFinal

Started(c) == {j \in 1 .. Len(probe[c]) : probe[c][j].pc # "wait"}
Waiting(c) == {j \in 1 .. Len(probe[c]) : probe[c][j].pc = "wait"}
BatchSettled(c) == \A j \in Started(c) : probe[c][j].pc \in ProbeFinal

StartOf_All(tasks, from) ==
    [j \in 1 .. Len(tasks) |->
        IF j >= from /\ tasks[j].pc = "wait"
        THEN [tasks[j] EXCEPT !.pc = "getStats"] ELSE tasks[j]]

\* lines 309-326: one iteration of the batch loop starts the next BATCH_SIZE
\* tasks, each up to its await of getStats.
StartOf(tasks, from) ==
    [j \in 1 .. Len(tasks) |->
        IF j >= from /\ j < from + BATCH_SIZE /\ tasks[j].pc = "wait"
        THEN [tasks[j] EXCEPT !.pc = "getStats"] ELSE tasks[j]]

\* lines 240-326: every seed's function has settled; the tasks are collected
\* and deduplicated and the first batch starts.
StageC(c) ==
    /\ cyc[c].pc = "fanout"
    /\ \A s \in Seeds : SeedSettled(c, s)
    /\ LET tasks == Deduplicate(AllStatsTasks(c))
           fresh == [j \in 1 .. Len(tasks) |->
                        [pnodeId |-> tasks[j].pnodeId, seed |-> tasks[j].seed,
                         failureCount |-> tasks[j].failureCount,
                         pc |-> "wait", stats |-> FALSE, sample |-> FALSE]]
       IN probe' = [probe EXCEPT ![c] = StartOf(fresh, 1)]
    /\ SetCyc(c, "probing")
    /\ UNCHANGED <<calcVars, creditsVars, cleanupVars, workerVars, clock, pnode, seedSt, branch, faults, scope>>

\* lines 309-326, 439: the batch has settled and the loop goes on.
NextBatch(c) ==
    /\ cyc[c].pc = "probing"
    /\ BatchSettled(c)
    /\ Waiting(c) # {}
    /\ probe' = [probe EXCEPT ![c] = StartOf(probe[c], Cardinality(Started(c)) + 1)]
    /\ UNCHANGED <<calcVars, creditsVars, cleanupVars, workerVars, clock, pnode, cyc, seedSt, branch, faults, scope>>

Probes(c) == 1 .. Len(probe[c])

FailPath_StoresSample(c, j) ==
    probe' = [probe EXCEPT ![c][j].pc = "updateFailure", ![c][j].sample = TRUE]

\* The catch block, lines 410-433, up to the await of its update.
FailPath(c, j) == SetProbe(c, j, "updateFailure")

\* lines 326-344: getStats settles.
GetStatsDone(c, j) ==
    /\ j \in Probes(c)
    /\ probe[c][j].pc = "getStats"
    /\ \E ok \in (IF probe[c][j].failureCount < MaxFailureCount
                  THEN BOOLEAN ELSE {TRUE}) :
          IF ok THEN probe' = [probe EXCEPT ![c][j].pc = "findPrev",
                                            ![c][j].stats = TRUE]
          ELSE FailPath(c, j)
    /\ UNCHANGED <<calcVars, creditsVars, cleanupVars, workerVars, clock, pnode, cyc, seedSt, branch, faults, scope>>

\* lines 341-395: the pnodeStatsSample.findFirst settles.
FindPrevDone(c, j) ==
    /\ j \in Probes(c)
    /\ probe[c][j].pc = "findPrev"
    /\ \E ok \in StoreOutcomes :
          /\ Count(ok)
          /\ IF ok THEN SetProbe(c, j, "createSample") ELSE FailPath(c, j)
    /\ UNCHANGED <<calcVars, creditsVars, cleanupVars, workerVars, clock, pnode, cyc, seedSt, branch, scope>>

SampleCreated_NoRow(pr) == [pr EXCEPT !.pc = "updateSuccess"]

\* lines 382-399: the awaited create has inserted the StatsSample; the probe
\* goes on to the success update of the Pnode row.
SampleCreated(pr) == [pr EXCEPT !.pc = "updateSuccess", !.sample = TRUE]

\* lines 382-407: the pnodeStatsSample.create settles.
CreateSampleDone(c, j) ==
    /\ j \in Probes(c)
    /\ probe[c][j].pc = "createSample"
    /\ \E ok \in StoreOutcomes :
          /\ Count(ok)
          /\ IF ok
             THEN probe' = [probe EXCEPT ![c][j] = SampleCreated(@)]
             ELSE FailPath(c, j)
    /\ UNCHANGED <<calcVars, creditsVars, cleanupVars, workerVars, clock, pnode, cyc, seedSt, branch, scope>>

AfterSuccess_NoSuccessTime(row, now) ==
    [row EXCEPT !.failureCount = 0,
                !.lastStatsAttemptAt = now,
                !.nextStatsAllowedAt = now + 60]

\* lines 399-407: the row the success update writes.
AfterSuccess(row, now) ==
    [row EXCEPT !.failureCount = 0,
                !.lastStatsAttemptAt = now,
                !.lastStatsSuccessAt = now,
                !.nextStatsAllowedAt = now + 60]

\* lines 412-433: the row the failure update writes.
AfterFailure(row, now, failureCount) ==
    LET newFailureCount == failureCount + 1
        delaySeconds == computeNextBackoff(newFailureCount, 60)
    IN  [row EXCEPT !.failureCount = newFailureCount,
                    !.lastStatsAttemptAt = now,
                    !.nextStatsAllowedAt = now + delaySeconds]

\* lines 399-409: the success update settles.
UpdateSuccessDone(c, j) ==
    /\ j \in Probes(c)
    /\ probe[c][j].pc = "updateSuccess"
    /\ \E ok \in StoreOutcomes :
          /\ Count(ok)
          /\ IF ok
             THEN /\ pnode' = [pnode EXCEPT ![probe[c][j].pnodeId] =
                                  AfterSuccess(@, cyc[c].now)]
                  /\ SetProbe(c, j, "success")
             ELSE /\ FailPath(c, j)
                  /\ UNCHANGED pnode
    /\ UNCHANGED <<calcVars, creditsVars, cleanupVars, workerVars, clock, cyc, seedSt, branch, scope>>

\* lines 426-436: the failure update settles; its rejection rejects the task.
UpdateFailureDone(c, j) ==
    /\ j \in Probes(c)
    /\ probe[c][j].pc = "updateFailure"
    /\ \E ok \in StoreOutcomes :
          /\ Count(ok)
          /\ IF ok
             THEN /\ pnode' = [pnode EXCEPT ![probe[c][j].pnodeId] =
                                  AfterFailure(@, cyc[c].now, probe[c][j].failureCount)]
                  /\ SetProbe(c, j, "failure")
             ELSE /\ SetProbe(c, j, "rejected")
                  /\ UNCHANGED pnode
    /\ UNCHANGED <<calcVars, creditsVars, cleanupVars, workerVars, clock, cyc, seedSt, branch, scope>>

\* lines 442-489: the last batch has settled; the summary is returned.
Finish(c) ==
    /\ cyc[c].pc = "probing"
    /\ BatchSettled(c)
    /\ Waiting(c) = {}
    /\ SetCyc(c, "done")
    /\ UNCHANGED <<calcVars, creditsVars, cleanupVars, workerVars, clock, pnode, seedSt, branch, probe, faults, scope>>

\* lines 145-168: the GossipObservation rows that cycle c has written for
\* seed s and peer p, one per branch whose create resolved (the branch
\* keeps the observedAt it wrote).
GossipRows(c, s, p) ==
    {k \in Branches(c, s) :
        /\ PeerOf(c, s, k) = p
        /\ branch[<<c, s>>][k].observedAt # NULL}

\* lines 382-395: the StatsSample rows that cycle c has written for peer p.
StatsSamples(c, p) ==
    {j \in 1 .. Len(probe[c]) : probe[c][j].pnodeId = p /\ probe[c][j].sample}

\* lines 272-279 and 443-460: the seedStats entry of seed s in the summary.
seedStats(c, s) ==
    LET r == SeedResult(c, s) IN
    [attempted |-> r.attempted, backoff |-> r.backoff, observed |-> r.observed,
     success |-> Cardinality({j \in Probes(c) :
                                 probe[c][j].seed = s /\ probe[c][j].pc = "success"}),
     failed |-> Cardinality({j \in Probes(c) :
                                probe[c][j].seed = s /\ probe[c][j].pc = "failure"})]

CycleNext ==
    \/ \E c \in Cycles : StartCycle(c)
    \/ \E c \in Cycles : StageADone(c)
    \/ \E c \in Cycles, s \in Seeds : GetPodsDone(c, s)
    \/ \E c \in Cycles, s \in Seeds, k \in 1 .. MaxPods : UpsertDone(c, s, k)
    \/ \E c \in Cycles, s \in Seeds, k \in 1 .. MaxPods : GossipDone(c, s, k)
    \/ \E c \in Cycles, s \in Seeds, k \in 1 .. MaxPods : ReadDone(c, s, k)
    \/ \E c \in Cycles, s \in Seeds, k \in 1 .. MaxPods : ResetDone(c, s, k)
    \/ \E c \in Cycles : StageC(c)
    \/ \E c \in Cycles : NextBatch(c)
    \/ \E c \in Cycles, j \in 1 .. MaxTasks : GetStatsDone(c, j)
    \/ \E c \in Cycles, j \in 1 .. MaxTasks : FindPrevDone(c, j)
    \/ \E c \in Cycles, j \in 1 .. MaxTasks : CreateSampleDone(c, j)
    \/ \E c \in Cycles, j \in 1 .. MaxTasks : UpdateSuccessDone(c, j)
    \/ \E c \in Cycles, j \in 1 .. MaxTasks : UpdateFailureDone(c, j)
    \/ \E c \in Cycles : Finish(c)

Spec == CycleInit /\ [][CycleNext]_vars

(***************************************************************************)
(*        One cycle after the other, for ever (SpecRecurring)              *)
(***************************************************************************)
\* Time that passes from one call of runIngestionCycle to the next: the timer
\* period, or a worker outage of two days.
Periods == {INGEST_INTERVAL_SECONDS, 2 * DaySeconds}

\* The passage of d seconds is modelled by moving every stored time d seconds
\* into the past while the clock stays where it is; the code only compares
\* stored times with the clock.  Times older than `floor` are kept at `floor`.
Earlier(t, d, floor) ==
    IF t = NULL THEN NULL ELSE IF t - d < floor THEN floor ELSE t - d

Elapse_NoTime(row, d) == row

\* nextStatsAllowedAt is compared with now and with now - 24 h (lines 26, 181,
\* 186); lastStatsAttemptAt and lastStatsSuccessAt are only written.
Elapse(row, d) ==
    [row EXCEPT !.nextStatsAllowedAt = Earlier(@, d, StartTime - 2 * DaySeconds),
                !.lastStatsAttemptAt = Earlier(@, d, StartTime - INGEST_INTERVAL_SECONDS),
                !.lastStatsSuccessAt = Earlier(@, d, StartTime - INGEST_INTERVAL_SECONDS)]

RecurringInit ==
    /\ clock = StartTime
    /\ scope = "recurring"
    /\ pnode \in RowsIn(scope)
    /\ CycleIdle
    /\ WorkerIdle
    /\ CleanupIdle
    /\ CreditsIdle
    /\ CalcIdle

\* worker.ts lines 154-158: the call has settled and the timer fires again
\* (or the worker is restarted after an outage); the next call starts afresh.
NextPeriod ==
    /\ cyc[1].pc \in {"done", "rejected"}
    /\ \E d \in Periods : pnode' = [p \in Peers |-> Elapse(pnode[p], d)]
    /\ cyc' = [cyc EXCEPT ![1] = [pc |-> "idle", now |-> NULL, oneDayAgo |-> NULL,
                                  stored |-> [p \in Peers |-> 0]]]
    /\ seedSt' = [cs \in Cycles \X Seeds |-> IdleSeed]
    /\ branch' = [cs \in Cycles \X Seeds |-> <<>>]
    /\ probe' = [c \in Cycles |-> <<>>]
    /\ UNCHANGED <<calcVars, creditsVars, cleanupVars, workerVars, clock, faults, scope>>

RecurringNext ==
    \/ StartCycle(1)
    \/ StageADone(1)
    \/ \E s \in Seeds : GetPodsDone(1, s)
    \/ \E s \in Seeds, k \in 1 .. MaxPods : UpsertDone(1, s, k)
    \/ \E s \in Seeds, k \in 1 .. MaxPods : GossipDone(1, s, k)
    \/ \E s \in Seeds, k \in 1 .. MaxPods : ReadDone(1, s, k)
    \/ \E s \in Seeds, k \in 1 .. MaxPods : ResetDone(1, s, k)
    \/ StageC(1)
    \/ \E j \in 1 .. MaxTasks : GetStatsDone(1, j)
    \/ \E j \in 1 .. MaxTasks : FindPrevDone(1, j)
    \/ \E j \in 1 .. MaxTasks : CreateSampleDone(1, j)
    \/ \E j \in 1 .. MaxTasks : UpdateSuccessDone(1, j)
    \/ \E j \in 1 .. MaxTasks : UpdateFailureDone(1, j)
    \/ Finish(1)
    \/ NextPeriod

\* Every awaited call is answered and the timer keeps firing.
SpecRecurring == RecurringInit /\ [][RecurringNext]_vars /\ WF_vars(RecurringNext)


(***************************************************************************)
(*          lib/cleanup.ts: one call of checkAndCleanupIfNeeded            *)
(***************************************************************************)

\* The tables hold what ingestion has written so far.
CleanupInit ==
    /\ clock = 0
    /\ scope = "oneCycle"
    /\ pnode = [p \in Peers |-> NoRow]
    /\ CycleIdle
    /\ WorkerIdle
    /\ tableRows \in [TableIds -> UNION {TableContents(t) : t \in TableIds}]
    /\ \A t \in TableIds : tableRows[t] \in TableContents(t)
    /\ cl = IdleCleanup
    /\ CreditsIdle
    /\ CalcIdle

NotCleanup == UNCHANGED <<workerVars, cycleVars, creditsVars, calcVars, clock>>

\* lines 23-26.
needsCleanup(count) == \E t \in TableIds : ExceedsTrigger(t, count[t])

\* lines 70, 87, 104: the synchronous part of performCleanup from table
\* `from` on: the next table whose count exceeds its target is looked up, or
\* the results are returned.
RECURSIVE CleanFrom(_, _)
CleanFrom(run, from) ==
    IF from > Len(Tables)
    THEN [run EXCEPT !.pc = "done", !.table = 0, !.cutoffDate = NULL]
    ELSE IF ExceedsTarget(from, run.count[from])
    THEN [run EXCEPT !.pc = "find", !.table = from, !.cutoffDate = NULL]
    ELSE CleanFrom(run, from + 1)

\* worker.ts lines 141, 166-170, cleanup.ts lines 11-13: the startup call or
\* a timer tick calls checkAndCleanupIfNeeded, which awaits its first count.
StartCleanup ==
    /\ cl.pc \in {"idle", "done", "rejected"}
    /\ cl' = [IdleCleanup EXCEPT !.pc = "count", !.table = 1,
                                 !.quiet = (cl.pc = "done" /\ ~cl.inserted)]
    /\ UNCHANGED tableRows
    /\ NotCleanup

\* lines 13-38: a count() resolves; after the third one needsCleanup is
\* evaluated and either the counts are returned or performCleanup starts.
CountDone ==
    /\ cl.pc = "count"
    /\ LET t == cl.table
           counted == [cl EXCEPT !.count[t] = RowCount(tableRows[t])]
       IN cl' = IF t < Len(Tables)
                THEN [counted EXCEPT !.table = t + 1]
                ELSE IF needsCleanup(counted.count)
                THEN CleanFrom([counted EXCEPT !.needsCleanup = TRUE], 1)
                ELSE [counted EXCEPT !.pc = "done", !.table = 0]
    /\ UNCHANGED tableRows
    /\ NotCleanup

\* lines 71-78, 88-95, 105-112: findNthOldestDate resolves.
FindDone ==
    /\ cl.pc = "find"
    /\ LET t == cl.table
           toDelete == cl.count[t] - Target(t)
           cutoffDate == findNthOldestDate(tableRows[t], toDelete)
       IN cl' = IF cutoffDate = NULL
                THEN CleanFrom(cl, t + 1)
                ELSE [cl EXCEPT !.pc = "delete", !.cutoffDate = cutoffDate]
    /\ UNCHANGED tableRows
    /\ NotCleanup

\* lines 79-83, 96-100, 113-117: deleteMany resolves.
DeleteDone ==
    /\ cl.pc = "delete"
    /\ LET t == cl.table
       IN /\ tableRows' = [tableRows EXCEPT ![t] = deleteMany(@, cl.cutoffDate)]
          /\ cl' = CleanFrom([cl EXCEPT !.cleaned = @ \cup {t}], t + 1)
    /\ NotCleanup

\* A store call of the cleanup rejects: nothing in cleanup.ts catches it, so
\* checkAndCleanupIfNeeded rejects (worker.ts lines 141-143 log it).
CleanupRejects ==
    /\ cl.pc \in {"count", "find", "delete"}
    /\ cl' = [IdleCleanup EXCEPT !.pc = "rejected"]
    /\ UNCHANGED tableRows
    /\ NotCleanup

\* lib/ingest.ts line 152, worker.ts line 33: ingestion, which runs beside
\* the cleanup, inserts a row while a call is in flight (what it inserts
\* between two calls is part of the contents the next call starts from).
InsertRow(t, tm) ==
    /\ cl.pc \in {"count", "find", "delete"}
    /\ RowCount(tableRows[t]) < Capacity[t]
    /\ tableRows' = [tableRows EXCEPT ![t][tm] = @ + 1]
    /\ cl' = [cl EXCEPT !.inserted = TRUE, !.quiet = FALSE]
    /\ NotCleanup

CleanupNext ==
    \/ StartCleanup
    \/ CountDone
    \/ FindDone
    \/ DeleteDone
    \/ CleanupRejects
    \/ \E t \in TableIds, tm \in Times : InsertRow(t, tm)

SpecCleanup == CleanupInit /\ [][CleanupNext]_vars

(***************************************************************************)
(*        lib/ingest/credits.ts: ingestCredits, called by worker.ts        *)
(***************************************************************************)

\* main has reached its first call of runCreditsOnce (worker.ts line 137);
\* the store holds the snapshots an earlier process wrote.
CreditsInit ==
    /\ clock = CreditsStartTime
    /\ scope = "oneCycle"
    /\ pnode = [p \in Peers |-> NoRow]
    /\ CycleIdle
    /\ WorkerIdle
    /\ CleanupIdle
    /\ CalcIdle
    /\ snap \in [CreditPods -> {<<>>, <<0>>, <<CreditsClockStep>>}]
    /\ cr = [r \in CreditRuns |-> IdleCredits]
    /\ nextCreditsAt = NULL

NotCredits == UNCHANGED <<workerVars, cycleVars, cleanupVars, calcVars>>

\* lines 32-40, 83-94: the synchronous part of the loop from entry i on.  An
\* entry without pod_id or number is counted and skipped; a null entry
\* throws in the try block and again in its catch block (pod.pod_id), which
\* the outer catch counts, and the loop is left; a proper entry awaits
\* findFirst.
RECURSIVE LoopFrom(_, _)
LoopFrom(run, i) ==
    IF i > Len(run.doc) THEN [run EXCEPT !.pc = "returned", !.i = i]
    ELSE IF run.doc[i] = NULL
    THEN [run EXCEPT !.pc = "returned", !.i = i, !.totalErrors = @ + 1]
    ELSE IF run.doc[i] = 0
    THEN LoopFrom([run EXCEPT !.totalErrors = @ + 1], i + 1)
    ELSE [run EXCEPT !.pc = "findFirst", !.i = i]

\* lines 83-89: the catch of the entry's try block, and on with the loop.
PodError(run) == LoopFrom([run EXCEPT !.totalErrors = @ + 1], run.i + 1)

FreeCreditRuns == {r \in CreditRuns : cr[r].pc \in {"idle", "returned"}}

\* lines 10-20: ingestCredits runs up to its await of getStorageCredits.
Call(r) == cr' = [cr EXCEPT ![r] = [IdleCredits EXCEPT !.pc = "fetch", !.now = clock]]

\* worker.ts line 137: main awaits runCreditsOnce.
MainCredits ==
    /\ nextCreditsAt = NULL
    /\ \A r \in CreditRuns : cr[r].pc = "idle"
    /\ Call(1)
    /\ UNCHANGED <<clock, snap, nextCreditsAt>>
    /\ NotCredits

\* worker.ts lines 137-163: the first call has returned and main sets the
\* credits timer.
SetCreditsInterval ==
    /\ nextCreditsAt = NULL
    /\ cr[1].pc = "returned"
    /\ nextCreditsAt' = clock + CREDITS_INTERVAL_SECONDS
    /\ UNCHANGED <<clock, snap, cr>>
    /\ NotCredits

CreditsTimerDue == nextCreditsAt # NULL /\ clock >= nextCreditsAt

\* worker.ts lines 161-163: the timer fires and calls runCreditsOnce, whether
\* or not an earlier call has returned.
CreditsTimer ==
    /\ CreditsTimerDue
    /\ FreeCreditRuns # {}
    /\ Call(CHOOSE r \in FreeCreditRuns : \A q \in FreeCreditRuns : r <= q)
    /\ nextCreditsAt' = nextCreditsAt + CREDITS_INTERVAL_SECONDS
    /\ UNCHANGED <<clock, snap>>
    /\ NotCredits

\* Time passes.  A due timer fires before more time passes.
CreditsTick ==
    /\ clock + CreditsClockStep <= MaxCreditsClock
    /\ ~CreditsTimerDue
    /\ clock' = clock + CreditsClockStep
    /\ UNCHANGED <<snap, cr, nextCreditsAt>>
    /\ NotCredits

\* lines 20-32, 91-94: getStorageCredits settles.
FetchDone(r) ==
    /\ cr[r].pc = "fetch"
    /\ \/ cr' = [cr EXCEPT ![r] = [@ EXCEPT !.pc = "returned", !.fetched = "rejected",
                                            !.totalErrors = 1]]
       \/ cr' = [cr EXCEPT ![r] = [@ EXCEPT !.pc = "returned", !.fetched = "noArray",
                                            !.totalErrors = 1]]
       \/ \E doc \in Documents :
             cr' = [cr EXCEPT ![r] = LoopFrom([@ EXCEPT !.fetched = "array", !.doc = doc], 1)]
    /\ UNCHANGED <<clock, snap, nextCreditsAt>>
    /\ NotCredits

\* lines 43-55: findFirst settles.
FindFirstDone(r) ==
    /\ cr[r].pc = "findFirst"
    /\ LET run == cr[r]
           latest == latestSnapshot(snap[run.doc[run.i]])
       IN \/ cr' = [cr EXCEPT ![r] =
                      IF TooRecent(latest, run.now - TwoHours)
                      THEN LoopFrom([run EXCEPT !.totalSkipped = @ + 1], run.i + 1)
                      ELSE [run EXCEPT !.pc = "create"]]
          \/ cr' = [cr EXCEPT ![r] = PodError(run)]
    /\ UNCHANGED <<clock, snap, nextCreditsAt>>
    /\ NotCredits

\* lines 58-70: podCreditsSnapshot.create settles.
SnapshotCreateDone(r) ==
    /\ cr[r].pc = "create"
    /\ LET run == cr[r] IN
          \/ /\ snap' = [snap EXCEPT ![run.doc[run.i]] = Append(@, run.now)]
             /\ cr' = [cr EXCEPT ![r].pc = "findUnique"]
          \/ /\ cr' = [cr EXCEPT ![r] = PodError(run)]
             /\ UNCHANGED snap
    /\ UNCHANGED <<clock, nextCreditsAt>>
    /\ NotCredits

\* lines 68-82: pnode.findUnique settles; the pod may have no Pnode row.
FindUniqueDone(r) ==
    /\ cr[r].pc = "findUnique"
    /\ LET run == cr[r] IN
          \/ cr' = [cr EXCEPT ![r].pc = "update"]
          \/ cr' = [cr EXCEPT ![r] = LoopFrom([run EXCEPT !.totalProcessed = @ + 1], run.i + 1)]
          \/ cr' = [cr EXCEPT ![r] = PodError(run)]
    /\ UNCHANGED <<clock, snap, nextCreditsAt>>
    /\ NotCredits

\* lines 73-82: pnode.update settles.
PnodeCreditsUpdateDone(r) ==
    /\ cr[r].pc = "update"
    /\ LET run == cr[r] IN
          \/ cr' = [cr EXCEPT ![r] = LoopFrom([run EXCEPT !.totalProcessed = @ + 1], run.i + 1)]
          \/ cr' = [cr EXCEPT ![r] = PodError(run)]
    /\ UNCHANGED <<clock, snap, nextCreditsAt>>
    /\ NotCredits

CreditsNext ==
    \/ MainCredits
    \/ SetCreditsInterval
    \/ CreditsTimer
    \/ CreditsTick
    \/ \E r \in CreditRuns : FetchDone(r)
    \/ \E r \in CreditRuns : FindFirstDone(r)
    \/ \E r \in CreditRuns : SnapshotCreateDone(r)
    \/ \E r \in CreditRuns : FindUniqueDone(r)
    \/ \E r \in CreditRuns : PnodeCreditsUpdateDone(r)

SpecCredits == CreditsInit /\ [][CreditsNext]_vars

(***************************************************************************)
(*                 worker.ts: main after the initial cycle                 *)
(***************************************************************************)

\* main, lines 128-137: the initial run has settled, whichever way, and main
\* calls runCreditsOnce, which runs up to the await of getStorageCredits.
MainRunCredits ==
    /\ mainPc = "initial"
    /\ inv[0] \in FinalPcs
    /\ mainPc' = "credits"
    /\ Call(1)
    /\ UNCHANGED <<calcVars, cleanupVars, cycleVars, clock, snap, nextCreditsAt, startup, nextIngestAt,
                   inv, runRow, ingestionFailureCount, circuitBreakerOpen,
                   circuitBreakerOpenTime, failedInARow, gate, effect, overlapped, dbHealthy>>

\* main, lines 137-170: the credits call has returned (its locals are gone
\* with it); main starts the cleanup check without awaiting it and sets the
\* three timers.
MainSetInterval ==
    /\ mainPc = "credits"
    /\ cr[1].pc = "returned"
    /\ mainPc' = "timers"
    /\ cl' = [IdleCleanup EXCEPT !.pc = "count", !.table = 1]
    /\ nextIngestAt' = clock + INGEST_INTERVAL_SECONDS
    /\ nextCreditsAt' = clock + CREDITS_INTERVAL_SECONDS
    /\ startup' = [startup EXCEPT !.timers = {"ingest", "credits", "cleanup"}]
    /\ cr' = [cr EXCEPT ![1] = [IdleCredits EXCEPT !.pc = "returned"]]
    /\ UNCHANGED <<calcVars, cycleVars, clock, tableRows, snap, inv, runRow,
                   ingestionFailureCount, circuitBreakerOpen, circuitBreakerOpenTime,
                   failedInARow, gate, effect, overlapped, dbHealthy>>

WorkerNext ==
    \/ ValidateDbDone
    \/ ValidateSeedDone
    \/ MainRunOnce
    \/ MainRunCredits
    \/ FetchDone(1)
    \/ FindFirstDone(1)
    \/ SnapshotCreateDone(1)
    \/ FindUniqueDone(1)
    \/ PnodeCreditsUpdateDone(1)
    \/ MainSetInterval
    \/ Tick
    \/ IngestTimer
    \/ \E i \in Invocations : PingDone(i)
    \/ \E i \in Invocations : ReconnectDone(i)
    \/ \E i \in Invocations : CreateDone(i)
    \/ \E i \in Invocations : CycleDone(i)
    \/ \E i \in Invocations : UpdateDone(i)
    \/ \E i \in Invocations : SeedStatsDone(i)
    \/ \E i \in Invocations : MetricsDone(i)
    \/ \E i \in Invocations : CatchUpdateDone(i)

SpecWorker == WorkerInit /\ [][WorkerNext]_vars

(***************************************************************************)
(*   lib/ingest.ts lines 340-379 (packet rates), lib/storage-analytics.ts  *)
(*                                                                         *)
(* Wide integers (BigInt) are integers; a float is the integer it holds    *)
(* when that is exact.  A rate is the pair <<delta, seconds>> of the       *)
(* division that yields it, and <<>> when it is null.  Times are in        *)
(* milliseconds; the previous sample was taken at 0.                       *)
(***************************************************************************)
PacketValues == {NULL, 2, 5, 12}
ByteValues == {NULL, 0, 1, 12}
SampleTimes == {5000, 5999, 6000, 8000}
BigIntValues == {NULL, 0 - 2, 0, 5, MAX_SAFE_INTEGER, MAX_SAFE_INTEGER + 1, 12}

NoSample == [exists |-> FALSE, timestamp |-> NULL, packetsReceivedCumulative |-> NULL,
             packetsSentCumulative |-> NULL, totalBytes |-> NULL]

SamplesAt(times) ==
    [exists : {TRUE}, timestamp : times, packetsReceivedCumulative : PacketValues,
     packetsSentCumulative : PacketValues, totalBytes : ByteValues]

NullRate == <<>>

\* Number(bigint): exact up to Number.MAX_SAFE_INTEGER; beyond it the float
\* has lost its low bit.
Number(v) == IF v <= MAX_SAFE_INTEGER THEN v ELSE (v \div 2) * 2

\* lines 346-378: packetsInPerSec and packetsOutPerSec.
packetsPerSec(prevSample, latest) ==
    IF /\ prevSample.exists
       /\ latest.packetsReceivedCumulative # NULL
       /\ latest.packetsSentCumulative # NULL
       /\ prevSample.packetsReceivedCumulative # NULL
       /\ prevSample.packetsSentCumulative # NULL
    THEN LET deltaMs == latest.timestamp - prevSample.timestamp
             deltaSeconds == deltaMs \div 1000
             deltaPacketsReceived == latest.packetsReceivedCumulative
                                       - prevSample.packetsReceivedCumulative
             deltaPacketsSent == latest.packetsSentCumulative
                                   - prevSample.packetsSentCumulative
         IN  IF deltaSeconds > 5
             THEN [packetsInPerSec |-> IF deltaPacketsReceived >= 0
                                       THEN <<Number(deltaPacketsReceived), deltaSeconds>>
                                       ELSE NullRate,
                   packetsOutPerSec |-> IF deltaPacketsSent >= 0
                                        THEN <<Number(deltaPacketsSent), deltaSeconds>>
                                        ELSE NullRate]
             ELSE [packetsInPerSec |-> NullRate, packetsOutPerSec |-> NullRate]
    ELSE [packetsInPerSec |-> NullRate, packetsOutPerSec |-> NullRate]

\* storage-analytics.ts, bigIntToNumberSafe (lines 495-504).
bigIntToNumberSafe(value) ==
    IF value = NULL THEN NULL
    ELSE IF value > MAX_SAFE_INTEGER THEN Number(MAX_SAFE_INTEGER)
    ELSE IF value < 0 THEN 0
    ELSE Number(value)

\* !x of a bigint | null: null and 0n are falsy.
Falsy(v) == v = NULL \/ v = 0

NoBytes == [deltaBytes |-> NULL, deltaSeconds |-> NULL, bytesPerSecond |-> NullRate]

\* storage-analytics.ts, computeBytesPerSecond (lines 507-549).
computeBytesPerSecond(prev, latest) ==
    IF Falsy(latest.totalBytes) THEN NoBytes
    ELSE IF ~prev.exists \/ Falsy(prev.totalBytes) THEN NoBytes
    ELSE LET deltaBytes == latest.totalBytes - prev.totalBytes
             deltaMs == latest.timestamp - prev.timestamp
             deltaSeconds == deltaMs \div 1000
             deltaBytesNumber == bigIntToNumberSafe(deltaBytes)
         IN  IF deltaBytes < 0 THEN NoBytes
             ELSE IF deltaSeconds <= 5
                  THEN [deltaBytes |-> deltaBytes, deltaSeconds |-> deltaSeconds,
                        bytesPerSecond |-> NullRate]
             ELSE IF deltaBytesNumber = NULL
                  THEN [deltaBytes |-> deltaBytes, deltaSeconds |-> deltaSeconds,
                        bytesPerSecond |-> NullRate]
             ELSE [deltaBytes |-> deltaBytes, deltaSeconds |-> deltaSeconds,
                   bytesPerSecond |-> <<deltaBytesNumber, deltaSeconds>>]

NoResult == [packetsInPerSec |-> NullRate, packetsOutPerSec |-> NullRate,
             bytes |-> NoBytes, converted |-> NULL]

\* The inputs: a previous sample or none, a new reading, and, for the
\* conversion on its own, a wide integer.
RatesInit ==
    /\ clock = 0
    /\ scope = "oneCycle"
    /\ pnode = [p \in Peers |-> NoRow]
    /\ CycleIdle
    /\ WorkerIdle
    /\ CleanupIdle
    /\ CreditsIdle
    /\ net = IdleNet
    /\ rpc = IdleRpc
    /\ \E prev \in {NoSample} \cup SamplesAt({0}), latest \in SamplesAt(SampleTimes) :
       \E value \in (IF prev.exists THEN {NULL} ELSE BigIntValues) :
          rate = [pc |-> "input", prevSample |-> prev, latest |-> latest,
                  value |-> value, result |-> NoResult]

NotRates == UNCHANGED <<clock, workerVars, cycleVars, cleanupVars, creditsVars, net, rpc>>

\* lib/ingest.ts, lines 346-378.
DerivePacketRates ==
    /\ rate.pc = "input"
    /\ rate' = [rate EXCEPT !.pc = "packets",
                   !.result.packetsInPerSec =
                       packetsPerSec(rate.prevSample, rate.latest).packetsInPerSec,
                   !.result.packetsOutPerSec =
                       packetsPerSec(rate.prevSample, rate.latest).packetsOutPerSec]
    /\ NotRates

\* A call of computeBytesPerSecond.
ComputeBytes ==
    /\ rate.pc = "input"
    /\ rate' = [rate EXCEPT !.pc = "bytes",
                   !.result.bytes = computeBytesPerSecond(rate.prevSample, rate.latest)]
    /\ NotRates

\* A call of bigIntToNumberSafe.
Convert ==
    /\ rate.pc = "input"
    /\ rate' = [rate EXCEPT !.pc = "converted",
                   !.result.converted = bigIntToNumberSafe(rate.value)]
    /\ NotRates

RatesNext ==
    \/ DerivePacketRates
    \/ ComputeBytes
    \/ Convert

SpecRates == RatesInit /\ [][RatesNext]_vars

(***************************************************************************)
(*                lib/network-metrics.ts (SpecMetrics)                     *)
(***************************************************************************)
\* What pnode.findMany selects for a peer: its newest stats sample and its
\* newest gossip observation, where there is one.
NoGossip == [exists |-> FALSE, storageCommitted |-> NULL, storageUsed |-> NULL,
             version |-> "null"]

GossipKinds ==
    {NoGossip,
     [exists |-> TRUE, storageCommitted |-> 5, storageUsed |-> 0, version |-> "0.6.0"],
     [exists |-> TRUE, storageCommitted |-> NULL, storageUsed |-> 2, version |-> "null"]}

NodeKinds ==
    [isPublic : BOOLEAN, failureCount : {0, 2}, uptimeSeconds : {NULL, 0, 3, 7},
     latestCredits : {NULL, 4}, gossip : GossipKinds]

\* The answers pnode.findMany can give for one page.
Batches == UNION {[1 .. n -> NodeKinds] : n \in 0 .. METRICS_BATCH_SIZE}

\* Rows of pnodeGossipObservation of one seed inside the ten-minute window,
\* newest first; lastSeenTimestamp is in seconds.
LastSeenValues == {NULL, NowSeconds - 29, NowSeconds - 30, NowSeconds - 120}

ObsLists ==
    UNION {[1 .. n -> [pnodeId : Peers, lastSeenTimestamp : LastSeenValues]] :
               n \in 0 .. MaxObs}

Percentiles == {0, 50, 90, 100}

Range(s) == {s[i] : i \in DOMAIN s}

RECURSIVE SumSeq(_)
SumSeq(s) == IF s = <<>> THEN 0 ELSE Head(s) + SumSeq(Tail(s))

\* Array.prototype.sort((a, b) => a - b).
RECURSIVE SortAsc(_)
SortAsc(s) ==
    IF s = <<>> THEN <<>>
    ELSE LET rest == SortAsc(Tail(s))
             below == SelectSeq(rest, LAMBDA x : x <= Head(s))
             above == SelectSeq(rest, LAMBDA x : x > Head(s))
         IN  below \o <<Head(s)>> \o above

\* Math.ceil((p / 100) * n) for the integers p and n.
CeilPercent(p, n) == (p * n + 99) \div 100

\* lines 6-10.
percentile(sortedValues, p) ==
    IF Len(sortedValues) = 0 THEN 0
    ELSE LET index == CeilPercent(p, Len(sortedValues)) - 1
             clamped == IF index < 0 THEN 0
                        ELSE IF index > Len(sortedValues) - 1
                             THEN Len(sortedValues) - 1
                             ELSE index
         IN  sortedValues[clamped + 1]

\* A ratio a / b kept as the pair of its terms.
Ratio(a, b) == <<a, b>>

Zero == Ratio(0, 1)

\* line 61.
reachableNodes(nodes) == Cardinality({i \in DOMAIN nodes : nodes[i].isPublic})

\* line 63.
reachablePercent(nodes) ==
    IF Len(nodes) > 0 THEN Ratio(reachableNodes(nodes) * 100, Len(nodes)) ELSE Zero

uptimes_Unsorted(nodes) ==
    SelectSeq([i \in DOMAIN nodes |-> nodes[i].uptimeSeconds],
              LAMBDA u : u # NULL /\ u > 0)

\* lines 66-69.
uptimes(nodes) ==
    SortAsc(SelectSeq([i \in DOMAIN nodes |-> nodes[i].uptimeSeconds],
                      LAMBDA u : u # NULL /\ u > 0))

\* lines 75-86: a missing observation, a null and a zero add nothing.
Truthy(v) == v # NULL /\ v # 0

totalStorageCommitted(nodes) ==
    SumSeq([i \in DOMAIN nodes |->
               IF nodes[i].gossip.exists /\ Truthy(nodes[i].gossip.storageCommitted)
               THEN nodes[i].gossip.storageCommitted ELSE 0])

totalStorageUsed(nodes) ==
    SumSeq([i \in DOMAIN nodes |->
               IF nodes[i].gossip.exists /\ Truthy(nodes[i].gossip.storageUsed)
               THEN nodes[i].gossip.storageUsed ELSE 0])

\* lines 89-91.
nodesBackedOff(nodes) == Cardinality({i \in DOMAIN nodes : nodes[i].failureCount > 0})

nodesFailingStats_AnyPrivate(nodes) ==
    Cardinality({i \in DOMAIN nodes : ~nodes[i].isPublic})

\* lines 92-94.
nodesFailingStats(nodes) ==
    Cardinality({i \in DOMAIN nodes : nodes[i].failureCount > 0 /\ ~nodes[i].isPublic})

\* line 99.
versionOf(node) ==
    IF node.gossip.exists /\ node.gossip.version # "null"
    THEN node.gossip.version ELSE "unknown"

\* lines 97-101: one entry per version that occurs.
versionCounts(nodes) ==
    [v \in {versionOf(nodes[i]) : i \in DOMAIN nodes} |->
        Cardinality({i \in DOMAIN nodes : versionOf(nodes[i]) = v})]

\* lines 176-179.
credits(nodes) ==
    SortAsc(SelectSeq([i \in DOMAIN nodes |-> nodes[i].latestCredits],
                      LAMBDA c : c # NULL))

NoVisibility == [nodesSeen |-> 0, freshNodes |-> 0, staleNodes |-> 0, offlineNodes |-> 0]

\* lines 145-150: the first row of a peer in the list is its newest.
latestPerNode(recentObs) ==
    [p \in {recentObs[i].pnodeId : i \in DOMAIN recentObs} |->
        LET first == CHOOSE i \in DOMAIN recentObs :
                        /\ recentObs[i].pnodeId = p
                        /\ \A j \in DOMAIN recentObs : recentObs[j].pnodeId = p => i <= j
        IN  recentObs[first].lastSeenTimestamp]

\* lines 155-172, for one peer: the class its lastSeenTimestamp falls into.
ageClass(lastSeenTimestamp, now) ==
    IF ~Truthy(lastSeenTimestamp) THEN "offline"
    ELSE IF now - lastSeenTimestamp < 30 THEN "fresh"
    ELSE IF now - lastSeenTimestamp < 120 THEN "stale"
    ELSE "offline"

\* lines 152-172.
visibility(recentObs, now) ==
    LET latest == latestPerNode(recentObs)
        In(class) == Cardinality({p \in DOMAIN latest : ageClass(latest[p], now) = class})
    IN  [nodesSeen |-> Cardinality(DOMAIN latest), freshNodes |-> In("fresh"),
         staleNodes |-> In("stale"), offlineNodes |-> In("offline")]

\* lines 59-101 and 176-182: everything derived from the peers read.
healthOf(nodes) ==
    [totalNodes |-> Len(nodes),
     reachableNodes |-> reachableNodes(nodes),
     unreachableNodes |-> Len(nodes) - reachableNodes(nodes),
     reachablePercent |-> reachablePercent(nodes),
     uptimes |-> uptimes(nodes),
     medianUptimeSeconds |->
         IF Len(uptimes(nodes)) > 0 THEN percentile(uptimes(nodes), 50) ELSE 0,
     p90UptimeSeconds |->
         IF Len(uptimes(nodes)) > 0 THEN percentile(uptimes(nodes), 90) ELSE 0,
     totalStorageCommitted |-> totalStorageCommitted(nodes),
     totalStorageUsed |-> totalStorageUsed(nodes),
     nodesBackedOff |-> nodesBackedOff(nodes),
     nodesFailingStats |-> nodesFailingStats(nodes),
     versionCounts |-> versionCounts(nodes),
     credits |-> credits(nodes),
     medianCredits |->
         IF Len(credits(nodes)) > 0 THEN percentile(credits(nodes), 50) ELSE 0,
     p90Credits |->
         IF Len(credits(nodes)) > 0 THEN percentile(credits(nodes), 90) ELSE 0]

NoHealth == healthOf(<<>>)

NoSnapshot == [exists |-> FALSE]

\* lines 185-228: the snapshot row and its nested rows.
networkSnapshot(ingestionRunId, health, seedVisibilityMap) ==
    [exists |-> TRUE,
     ingestionRunId |-> ingestionRunId,
     totalNodes |-> health.totalNodes,
     reachableNodes |-> health.reachableNodes,
     unreachableNodes |-> health.unreachableNodes,
     reachablePercent |-> health.reachablePercent,
     medianUptimeSeconds |-> health.medianUptimeSeconds,
     p90UptimeSeconds |-> health.p90UptimeSeconds,
     totalStorageCommitted |-> health.totalStorageCommitted,
     totalStorageUsed |-> health.totalStorageUsed,
     nodesBackedOff |-> health.nodesBackedOff,
     nodesFailingStats |-> health.nodesFailingStats,
     versionStats |->
         {[ingestionRunId |-> ingestionRunId, version |-> v,
           nodeCount |-> health.versionCounts[v]] : v \in DOMAIN health.versionCounts},
     seedVisibility |->
         {[ingestionRunId |-> ingestionRunId, seedBaseUrl |-> s,
           nodesSeen |-> seedVisibilityMap[s].nodesSeen,
           freshNodes |-> seedVisibilityMap[s].freshNodes,
           staleNodes |-> seedVisibilityMap[s].staleNodes,
           offlineNodes |-> seedVisibilityMap[s].offlineNodes] :
              s \in DOMAIN seedVisibilityMap},
     creditsStat |->
         [ingestionRunId |-> ingestionRunId, medianCredits |-> health.medianCredits,
          p90Credits |-> health.p90Credits]]

\* No call of computeNetworkMetrics is under way. runs counts the rows of
\* IngestionRun; snapshotsOf counts the rows of NetworkSnapshot by their
\* ingestionRunId.
MetricsIdle(runs, snapshotsOf) ==
    [pc |-> "idle", runs |-> runs, snapshotsOf |-> snapshotsOf, ingestionRunId |-> NULL,
     nodes |-> <<>>, skip |-> 0, health |-> NoHealth,
     seedVisibilityMap |-> [s \in Seeds |-> NoVisibility], seed |-> 1,
     networkSnapshot |-> NoSnapshot]

MetricsInit ==
    /\ clock = 0
    /\ scope = "oneCycle"
    /\ pnode = [p \in Peers |-> NoRow]
    /\ CycleIdle
    /\ WorkerIdle
    /\ CleanupIdle
    /\ CreditsIdle
    /\ rate = IdleRate
    /\ rpc = IdleRpc
    /\ net = MetricsIdle(0, [r \in 1 .. MaxRuns |-> 0])

NotMetrics == UNCHANGED <<clock, workerVars, cycleVars, cleanupVars, creditsVars, rate, rpc>>

\* worker.ts, lines 32-78: runOnce creates its IngestionRun row and, the cycle
\* and its bookkeeping done, calls computeNetworkMetrics(run.id).
CallMetrics ==
    /\ net.pc = "idle"
    /\ net.runs < MaxRuns
    /\ net' = [net EXCEPT !.pc = "findMany", !.runs = net.runs + 1,
                  !.ingestionRunId = net.runs + 1]
    /\ NotMetrics

\* lines 18-101 and 176-182: one page of pnode.findMany. An empty page or the
\* safety limit ends the loop; everything up to the first read of the
\* observations is computed then.
LoadBatch ==
    /\ net.pc = "findMany"
    /\ \E batch \in Batches :
          LET nodes == net.nodes \o batch
              skip == net.skip + METRICS_BATCH_SIZE
          IN  IF Len(batch) = 0
              THEN net' = [net EXCEPT !.pc = "recentObs", !.nodes = <<>>,
                              !.health = healthOf(net.nodes)]
              ELSE IF skip > SKIP_LIMIT
                   THEN net' = [net EXCEPT !.pc = "recentObs", !.nodes = <<>>,
                                   !.skip = skip, !.health = healthOf(nodes)]
                   ELSE net' = [net EXCEPT !.nodes = nodes, !.skip = skip]
    /\ NotMetrics

\* lines 125-173: the observations of one seed are read and counted.
LoadSeedObservations ==
    /\ net.pc = "recentObs"
    /\ \E recentObs \in ObsLists :
          net' = [net EXCEPT !.seedVisibilityMap[net.seed] = visibility(recentObs, NowSeconds),
                     !.seed = net.seed + 1,
                     !.pc = IF net.seed = NumSeeds THEN "create" ELSE "recentObs"]
    /\ NotMetrics

\* lines 185-230: the nested create, which writes all its rows or none.
CreateSnapshot ==
    /\ net.pc = "create"
    /\ \E ok \in BOOLEAN :
          IF ok
          THEN net' = [net EXCEPT !.pc = "returned",
                          !.networkSnapshot =
                              networkSnapshot(net.ingestionRunId, net.health,
                                              net.seedVisibilityMap),
                          !.snapshotsOf[net.ingestionRunId] = @ + 1]
          ELSE net' = [net EXCEPT !.pc = "rejected"]
    /\ NotMetrics

\* worker.ts, lines 77-83: runOnce drops the result, or logs the error.
MetricsSettled ==
    /\ net.pc \in {"returned", "rejected"}
    /\ net' = MetricsIdle(net.runs, net.snapshotsOf)
    /\ NotMetrics

MetricsNext ==
    \/ CallMetrics
    \/ LoadBatch
    \/ LoadSeedObservations
    \/ CreateSnapshot
    \/ MetricsSettled

SpecMetrics == MetricsInit /\ [][MetricsNext]_vars

(***************************************************************************)
(*                  lib/prpc-client.ts (SpecRpc)                           *)
(***************************************************************************)
StatusCodes == {200, 204, 404, 500}

\* What the body of a response parses to: a document with a result, one with
\* an error member, one with neither, or no JSON at all.
Bodies == {"result", "error", "neither", "invalid"}

\* lines 84-172, after req.end(): the timer is armed, the request is open and
\* the promise is pending.
InFlightRpc ==
    [timeoutId |-> "set", timerPending |-> TRUE, isResolved |-> FALSE,
     req |-> "open", reqErrored |-> FALSE, res |-> "none", data |-> 0,
     promise |-> "pending", json |-> "none", settled |-> 0,
     call |-> "pending", fired |-> FALSE, late |-> 0]

\* lines 88-93.
cleanup(r) == [r EXCEPT !.timeoutId = "null", !.timerPending = FALSE]

\* reject(error) and resolve(value) of the promise: the first one decides.
reject(r, error) ==
    [r EXCEPT !.promise = IF r.promise = "pending" THEN error ELSE @,
              !.settled = @ + 1]

resolve(r, value) ==
    [r EXCEPT !.promise = IF r.promise = "pending" THEN "resolved" ELSE @,
              !.json = IF r.promise = "pending" THEN value ELSE @,
              !.settled = @ + 1]

rejectOnce_Unguarded(r, error) ==
    reject(cleanup([r EXCEPT !.isResolved = TRUE]), error)

\* lines 95-101.
rejectOnce(r, error) ==
    IF ~r.isResolved
    THEN reject(cleanup([r EXCEPT !.isResolved = TRUE]), error)
    ELSE r

\* lines 103-109.
resolveOnce(r, value) ==
    IF ~r.isResolved
    THEN resolve(cleanup([r EXCEPT !.isResolved = TRUE]), value)
    ELSE r

\* An event handled after the timer has fired is counted in late.
Handled(r) == [r EXCEPT !.late = IF r.fired /\ r.late < MaxLate THEN @ + 1 ELSE @]

RpcInit ==
    /\ clock = 0
    /\ scope = "oneCycle"
    /\ pnode = [p \in Peers |-> NoRow]
    /\ CycleIdle
    /\ WorkerIdle
    /\ CleanupIdle
    /\ CreditsIdle
    /\ rate = IdleRate
    /\ net = IdleNet
    /\ rpc = InFlightRpc

NotRpc == UNCHANGED <<clock, workerVars, cycleVars, cleanupVars, creditsVars, rate, net>>

\* lines 112-117: the setTimeout callback. clearTimeout keeps it from running
\* once the promise has settled.
TimerFires ==
    /\ rpc.timerPending
    /\ rpc' = rejectOnce([rpc EXCEPT !.timerPending = FALSE, !.req = "destroyed",
                              !.fired = TRUE], "timeout")
    /\ NotRpc

\* lines 129-135: the response callback. A response that is already queued
\* may still be delivered after the request was destroyed.
Response ==
    /\ rpc.res = "none"
    /\ \E statusCode \in StatusCodes :
          IF statusCode < 200 \/ statusCode >= 300
          THEN rpc' = rejectOnce(Handled([rpc EXCEPT !.res = "refused"]), "httpError")
          ELSE rpc' = Handled([rpc EXCEPT !.res = "receiving"])
    /\ NotRpc

\* lines 137-140.
ResData ==
    /\ rpc.res = "receiving"
    /\ rpc.data < MaxChunks
    /\ rpc' = Handled([rpc EXCEPT !.data = @ + 1])
    /\ NotRpc

\* lines 141-148.
ResEnd ==
    /\ rpc.res = "receiving"
    /\ \E body \in Bodies :
          IF body # "invalid"
          THEN rpc' = resolveOnce(Handled([rpc EXCEPT !.res = "ended"]), body)
          ELSE rpc' = rejectOnce(Handled([rpc EXCEPT !.res = "ended"]), "parseError")
    /\ NotRpc

\* lines 149-155.
ResError ==
    /\ rpc.res = "receiving"
    /\ rpc' = rejectOnce(Handled([rpc EXCEPT !.res = "errored", !.req = "destroyed"]),
                         "responseError")
    /\ NotRpc

\* lines 159-164: a socket error, also the one a destroyed request emits.
ReqError ==
    /\ ~rpc.reqErrored
    /\ rpc' = rejectOnce(Handled([rpc EXCEPT !.reqErrored = TRUE, !.req = "destroyed"]),
                         "requestFailed")
    /\ NotRpc

\* lines 166-169: the socket's own idle timeout.
ReqTimeout ==
    /\ rpc.req = "open"
    /\ rpc' = rejectOnce(Handled([rpc EXCEPT !.req = "destroyed"]), "requestTimeout")
    /\ NotRpc

\* lines 84 and 175-185: the await ends; the rejection is rethrown, a
\* document with an error member or without a result throws.
AwaitSettled ==
    /\ rpc.call = "pending"
    /\ rpc.promise # "pending"
    /\ rpc' = [rpc EXCEPT !.call =
                  IF rpc.promise # "resolved" THEN rpc.promise
                  ELSE IF rpc.json = "error" THEN "prpcError"
                  ELSE IF rpc.json = "neither" THEN "missingResult"
                  ELSE "returned"]
    /\ NotRpc

RpcNext ==
    \/ TimerFires
    \/ Response
    \/ ResData
    \/ ResEnd
    \/ ResError
    \/ ReqError
    \/ ReqTimeout
    \/ AwaitSettled

\* An armed timer fires, and a settled promise resumes its awaiter.
SpecRpc == RpcInit /\ [][RpcNext]_vars /\ WF_vars(TimerFires) /\ WF_vars(AwaitSettled)

(***************************************************************************)
(*                    Claims about the scheduler (SpecWorker)              *)
(***************************************************************************)
\* The step in which invocation i, the store having answered, evaluates the
\* breaker (it leaves the store check, and not by giving up).
BreakerCheckStep(i) ==
    /\ inv[i] \in {"ping", "reconnect"}
    /\ inv'[i] \notin {"ping", "reconnect", "unhealthy"}

\* C5: at most one ingestion cycle is in flight at any time; a timer tick
\* never starts runOnce while the previous cycle has not finished.
C5_AtMostOneCycleInFlight ==
    Cardinality({i \in Invocations : inv[i] \in InFlightPcs}) <= 1

\* C6: the circuit breaker is never open after fewer than 5 consecutive
\* failed ingestion cycles (it opens when the 5th one completes).  Stated
\* for the runs in which no two cycles overlapped.
C6_OpenOnlyAfterFiveFailures ==
    (circuitBreakerOpen /\ ~overlapped) => failedInARow >= CIRCUIT_BREAKER_THRESHOLD

\* C7: when the breaker is open and fewer than 5 minutes have passed since
\* it opened, a timer tick that reaches the breaker check starts no cycle:
\* runOnce is not called, so no IngestionRun row is created, and the breaker
\* state is left as it is.
C7_OpenBreakerSkipsTick ==
    [][\A i \in TimerSlots :
          (/\ BreakerCheckStep(i)
           /\ circuitBreakerOpen
           /\ clock - circuitBreakerOpenTime < 300)
          => /\ inv'[i] = "skipped"
             /\ runRow' = runRow
             /\ circuitBreakerOpen'
             /\ circuitBreakerOpenTime' = circuitBreakerOpenTime]_vars

\* C7 witness: a tick was skipped by the open breaker, and no run row exists for it.
C7_Witness ==
    \E i \in TimerSlots : inv[i] = "skipped" /\ gate[i] = "blocked" /\ runRow[i] = "none"

\* C8: a timer tick that reaches the breaker check (store reachable) at least
\* 5 minutes after the breaker opened closes the breaker, resets the failure
\* counter to 0 and calls runOnce.
C8_ExpiredBreakerResetsAndRuns ==
    [][\A i \in TimerSlots :
          (/\ BreakerCheckStep(i)
           /\ circuitBreakerOpen
           /\ clock - circuitBreakerOpenTime >= 300)
          => /\ ~circuitBreakerOpen'
             /\ circuitBreakerOpenTime' = NULL
             /\ ingestionFailureCount' = 0
             /\ inv'[i] = "create"]_vars

\* C8 witness: an invocation went through the reset branch and its cycle is running.
C8_Witness ==
    \E i \in TimerSlots : gate[i] = "reset" /\ inv[i] = "cycle" /\ runRow[i] = "started"

\* C9: when an ingestion cycle completes successfully, the breaker is closed
\* and the consecutive-failure counter is 0 afterwards, whatever came before.
C9_SuccessClearsBreaker ==
    [][\A i \in Invocations :
          (inv[i] # "ok" /\ inv'[i] = "ok")
          => (~circuitBreakerOpen' /\ ingestionFailureCount' = 0)]_vars

\* C9 witness: a cycle succeeded while the breaker was open, and closed it.
C9_Witness ==
    \E i \in TimerSlots :
        inv[i] = "ok" /\ effect[i] = "closed" /\ ~circuitBreakerOpen
        /\ ingestionFailureCount = 0

(***************************************************************************)
(*                 Claims about the ingestion cycle (Spec)                 *)
(***************************************************************************)
\* The probes of cycle c that are about peer p.
ProbesOf(c, p) == {j \in Probes(c) : probe[c][j].pnodeId = p}

\* C1: every peer's failureCount is >= 0 in every reachable state, and the
\* step in which the success update of a probe of cycle C lands leaves the
\* peer with failureCount = 0, lastStatsAttemptAt = lastStatsSuccessAt = C's
\* `now` and nextStatsAllowedAt = C's `now` + 60 s.
C1_SuccessResetsBackoff ==
    /\ [](\A p \in Peers : pnode[p].failureCount >= 0)
    /\ [][\A c \in Cycles : \A j \in Probes(c) :
             (probe[c][j].pc = "updateSuccess" /\ probe'[c][j].pc = "success")
             => LET row == pnode'[probe[c][j].pnodeId] IN
                /\ row.failureCount = 0
                /\ row.lastStatsAttemptAt = cyc[c].now
                /\ row.lastStatsSuccessAt = cyc[c].now
                /\ row.nextStatsAllowedAt = cyc[c].now + 60]_vars

\* C1 witness: a peer that was failing before has been probed successfully
\* and its row carries the values of the success update.
C1_Witness ==
    \E c \in Cycles : \E j \in Probes(c) :
        LET row == pnode[probe[c][j].pnodeId] IN
        /\ probe[c][j].pc = "success"
        /\ probe[c][j].failureCount > 0
        /\ row.failureCount = 0
        /\ row.lastStatsAttemptAt = cyc[c].now
        /\ row.lastStatsSuccessAt = cyc[c].now
        /\ row.nextStatsAllowedAt = cyc[c].now + 60

\* C2: a peer whose stored failureCount was k when cycle C took its `now`
\* and whose getStats call failed in C has, once the failure update landed,
\* failureCount = k + 1 and nextStatsAllowedAt = C's `now` +
\* 60 * 2^min(k+1, 5) s, whatever the order of the Stage B branches.  Stated
\* for the runs in which no other cycle has started.
C2_FailureIncrementsStoredCount ==
    \A c \in Cycles :
        (\A d \in Cycles \ {c} : cyc[d].pc = "idle")
        => \A j \in Probes(c) :
              (probe[c][j].pc = "failure" /\ ~probe[c][j].stats)
              => LET p == probe[c][j].pnodeId
                     k == cyc[c].stored[p]
                 IN /\ pnode[p].failureCount = k + 1
                    /\ pnode[p].nextStatsAllowedAt
                         = cyc[c].now + 60 * Pow2(Min(k + 1, 5))

\* C3: a peer whose nextStatsAllowedAt was later than the cycle's `now` when
\* a Stage B branch of the cycle read it is in the cycle's backoff set, and
\* the cycle issues no getStats call for it, inserts no sample for it and
\* writes neither its failureCount nor its nextStatsAllowedAt (no delayed
\* reset, no probe update).
C3_BackoffPeerUntouched ==
    \A c \in Cycles : \A p \in PeersAt(c, {"backoff"}) :
        /\ p \in backoffPnodeIds(c)
        /\ \A j \in ProbesOf(c, p) : probe[c][j].pc = "wait"
        /\ p \notin PeersAt(c, {"reset", "rejReset"})

\* The peers that Stage B of cycle c found eligible: those for which some
\* seed's branch returned a task.
Eligible(c) == PeersAt(c, {"task"})

C10_FailedSeedContributesNothing ==
    \A c \in Cycles : \A s \in Seeds :
        seedSt[<<c, s>>].pc = "failed"
        => /\ branch[<<c, s>>] = <<>>
           /\ \A j \in Probes(c) : probe[c][j].seed # s
           /\ cyc[c].pc # "rejected"
           /\ cyc[c].pc = "done"
              => /\ seedStats(c, s) = [attempted |-> 0, success |-> 0, failed |-> 0,
                                       backoff |-> 0, observed |-> 0]
                 /\ \A t \in Seeds \ {s} : SeedSettled(c, t)
                 /\ \A j \in Probes(c) : probe[c][j].pc \in ProbeFinal

\* C10 witness: a finished cycle in which one seed failed and another seed's
\* peer was observed, probed successfully and counted for that seed.
C10_Witness ==
    \E c \in Cycles : \E s \in Seeds : \E t \in Seeds \ {s} :
        /\ cyc[c].pc = "done"
        /\ seedSt[<<c, s>>].pc = "failed"
        /\ seedStats(c, s).observed = 0
        /\ seedStats(c, t).observed > 0
        /\ seedStats(c, t).success > 0

\* The branches of seed s in cycle c whose store operation rejected.
RejectedBranches(c, s) ==
    {k \in Branches(c, s) :
        branch[<<c, s>>][k].pc \in {"rejUpsert", "rejGossip", "rejRead", "rejReset"}}

\* The seeds and pod branches of cycle c that await an RPC or store answer,
\* and the probes of cycle c that do.
Pending(c) ==
    {<<s, 0>> : s \in {t \in Seeds : seedSt[<<c, t>>].pc = "getPods"}}
    \cup BranchesAt(c, {"upsert", "gossip", "read", "reset"})

InFlight(c) == {j \in Probes(c) : probe[c][j].pc \notin ProbeFinal \cup {"wait"}}

\* C11: once Stage A has resolved, runIngestionCycle never rejects, and when
\* everything it awaits has answered it goes on (every seed's function has
\* settled, so Stage C runs; the next batch starts or the summary is
\* returned), whatever getPods calls, Stage B
\* store operations, getStats calls and Stage D store operations fail; a pod
\* branch whose store operation rejected has no task, and every other branch
\* of that seed has run to its end, its task (if any) having a probe.
C11_CycleNeverAborts ==
    \A c \in Cycles :
        /\ cyc[c].pc = "rejected" => cyc[c].now = NULL
        /\ (cyc[c].pc = "fanout" /\ Pending(c) = {})
           => \A s \in Seeds : SeedSettled(c, s)
        /\ (cyc[c].pc = "probing" /\ InFlight(c) = {})
           => ENABLED (NextBatch(c) \/ Finish(c))
        /\ cyc[c].pc \in {"probing", "done"}
           => \A s \in Seeds :
                 /\ Len(SeedResult(c, s).statsTasks)
                      = Cardinality({k \in Branches(c, s) :
                                        branch[<<c, s>>][k].pc = "task"})
                 /\ \A k \in Branches(c, s) :
                       /\ branch[<<c, s>>][k].pc \in BranchFinal
                       /\ branch[<<c, s>>][k].pc = "task"
                          => ProbesOf(c, PeerOf(c, s, k)) # {}

\* C11 witness: a cycle returned its summary although the store rejected a
\* Stage B operation of one pod; another pod of the same seed was probed.
C11_Witness ==
    \E c \in Cycles : \E s \in Seeds : \E k \in Branches(c, s) :
        /\ cyc[c].pc = "done"
        /\ RejectedBranches(c, s) # {}
        /\ branch[<<c, s>>][k].pc = "task"
        /\ \E j \in ProbesOf(c, PeerOf(c, s, k)) :
              probe[c][j].seed = s /\ probe[c][j].pc = "success"

\* The positions of a gossip view whose pod has a pubkey.
Keyed(pods) == {i \in 1 .. Len(pods) : pods[i] # 0}

\* C12: a pod without a pubkey has no branch, so no upsert, no gossip row and
\* no task: the branches of a seed are exactly the pods of its view that
\* have a pubkey, in order, every probe is about a peer with a pubkey, and
\* when the seeds have settled each of those branches has run to its end.
C12_NoPubkeyNoWork ==
    \A c \in Cycles :
        /\ \A s \in Seeds :
              LET pods == seedSt[<<c, s>>].pods IN
              /\ Len(branch[<<c, s>>]) = Cardinality(Keyed(pods))
              /\ \A k \in Branches(c, s) :
                    /\ PeerOf(c, s, k) \in Peers
                    /\ \E i \in Keyed(pods) :
                          /\ pods[i] = PeerOf(c, s, k)
                          /\ Cardinality({h \in Keyed(pods) : h <= i}) = k
                    /\ cyc[c].pc \in {"probing", "done"}
                       => branch[<<c, s>>][k].pc \in BranchFinal
        /\ \A j \in Probes(c) : probe[c][j].pnodeId \in Peers

\* C12 witness: a seed answered with a pod without pubkey followed by a pod
\* with one; the cycle returned and the second pod's peer was probed.
C12_Witness ==
    \E c \in Cycles : \E s \in Seeds :
        /\ cyc[c].pc = "done"
        /\ seedSt[<<c, s>>].pods = <<0, 2>>
        /\ Len(branch[<<c, s>>]) = 1
        /\ branch[<<c, s>>][1].pc = "task"
        /\ \E j \in ProbesOf(c, 2) : probe[c][j].seed = s /\ probe[c][j].pc = "success"

\* C13: in one cycle at most one GossipObservation row is written per
\* (seed, peer) pair and at most one StatsSample per peer, whatever gossip
\* view a seed returns.
C13_OneRowPerSeedAndPeer ==
    \A c \in Cycles : \A p \in Peers :
        /\ \A s \in Seeds : Cardinality(GossipRows(c, s, p)) <= 1
        /\ Cardinality(StatsSamples(c, p)) <= 1

\* C14: a StatsSample row exists for a probe of a cycle only if that probe's
\* getStats call returned a result; a probe whose getStats call threw has
\* inserted no StatsSample.
C14_SampleOnlyAfterStats ==
    \A c \in Cycles : \A j \in Probes(c) :
        /\ probe[c][j].sample => probe[c][j].stats
        /\ (probe[c][j].pc \in {"updateFailure", "failure", "rejected"}
            /\ ~probe[c][j].stats) => StatsSamples(c, probe[c][j].pnodeId) = {}

\* C14 witness: in one finished cycle a probe whose getStats threw left no
\* sample and another probe stored one.
C14_Witness ==
    \E c \in Cycles : \E i, j \in Probes(c) :
        /\ cyc[c].pc = "done"
        /\ probe[c][i].pc = "failure" /\ ~probe[c][i].stats /\ ~probe[c][i].sample
        /\ probe[c][j].pc = "success" /\ probe[c][j].stats /\ probe[c][j].sample

\* C15: while Stage A of a cycle is pending no seed of the cycle has been
\* polled, and the step in which Stage A resolves rewrites exactly the rows
\* whose nextStatsAllowedAt is earlier than 24 hours before the cycle's start
\* and whose failureCount is > 0, setting failureCount = 0 and
\* nextStatsAllowedAt = null and leaving their other fields, and every other
\* row, as they were.
C15_StageAResetsExactlyStale ==
    /\ [](\A c \in Cycles :
            cyc[c].pc \in {"idle", "stageA", "rejected"}
            => \A s \in Seeds : seedSt[<<c, s>>].pc = "idle" /\ branch[<<c, s>>] = <<>>)
    /\ [][\A c \in Cycles :
             (cyc[c].pc = "stageA" /\ cyc'[c].pc = "fanout")
             => \A p \in Peers :
                   IF /\ pnode[p].nextStatsAllowedAt # NULL
                      /\ pnode[p].nextStatsAllowedAt < cyc'[c].now - 24 * 60 * 60
                      /\ pnode[p].failureCount > 0
                   THEN pnode'[p] = [pnode[p] EXCEPT !.failureCount = 0,
                                                     !.nextStatsAllowedAt = NULL]
                   ELSE pnode'[p] = pnode[p]]_vars

\* C15 witness: Stage A has just resolved; it reset a peer that had failed
\* five times and whose backoff ended two days ago, keeping the peer's
\* lastStatsAttemptAt, and left a peer with a running backoff alone.
C15_Witness ==
    \E c \in Cycles : \E p, q \in Peers :
        /\ cyc[c].pc = "fanout"
        /\ \A s \in Seeds : seedSt[<<c, s>>].pc = "getPods"
        /\ pnode[p].failureCount = 0
        /\ pnode[p].nextStatsAllowedAt = NULL
        /\ pnode[p].lastStatsAttemptAt = StartTime - 2 * DaySeconds - 1920
        /\ pnode[q].failureCount = 3
        /\ pnode[q].nextStatsAllowedAt > cyc[c].now

\* C16: no peer is exiled for ever.  With cycles following one another, a
\* seed that keeps reporting the peer, and every call answered, a peer whose
\* nextStatsAllowedAt lies in the future is eventually found eligible and a
\* getStats call is issued for it, after any number of failed probes and
\* after worker outages.
C16_NoPermanentExile ==
    (pnode[1].nextStatsAllowedAt # NULL /\ pnode[1].nextStatsAllowedAt > clock)
    ~> (\E j \in Probes(1) : probe[1][j].pnodeId = 1 /\ probe[1][j].pc = "getStats")

\* C16 witness: the peer has failed so often that its backoff is at the cap
\* (a task carrying failureCount 5 exists only after five failed probes with
\* their backoffs waited out), and it is being probed again.
C16_Witness ==
    /\ scope = "recurring"
    /\ \E j \in Probes(1) :
          /\ probe[1][j].pnodeId = 1
          /\ probe[1][j].failureCount = 5
          /\ probe[1][j].pc = "getStats"

\* line 311: the batch a task of the deduplicated list belongs to.
batchNum(j) == ((j - 1) \div BATCH_SIZE) + 1

RECURSIVE totalPodsFrom(_, _)
totalPodsFrom(c, s) ==
    IF s > NumSeeds THEN 0
    ELSE SeedResult(c, s).pods + totalPodsFrom(c, s + 1)

totalPods(c) == totalPodsFrom(c, 1)
gossipObs(c) == totalPods(c)

\* lines 145-168: the number of GossipObservation rows cycle c has written.
RECURSIVE RowsWrittenFrom(_, _, _)
RowsWrittenFrom(c, s, p) ==
    IF s > NumSeeds THEN 0
    ELSE IF p > NumPeers THEN RowsWrittenFrom(c, s + 1, 1)
    ELSE Cardinality(GossipRows(c, s, p)) + RowsWrittenFrom(c, s, p + 1)

RowsWritten(c) == RowsWrittenFrom(c, 1, 1)

\* C18: when a cycle returns its summary, totalPods and gossipObs both equal
\* the number of GossipObservation rows the cycle has written.
C18_SummaryCountsRowsWritten ==
    \A c \in Cycles :
        cyc[c].pc = "done" =>
            /\ totalPods(c) = RowsWritten(c)
            /\ gossipObs(c) = RowsWritten(c)

(***************************************************************************)
(*                 Claims about the cleanup (SpecCleanup)                  *)
(***************************************************************************)

\* A count is over 90% of the table's threshold; over 70% of it.
OverTrigger(t, n) == n * 10 > Threshold(t) * 9
OverTarget(t, n) == n * 10 > Threshold(t) * 7

\* Table t loses a row in the step.
LosesRows(t) == \E tm \in Times : tableRows'[t][tm] < tableRows[t][tm]

\* C19: a call that counted no table over its trigger returns without having
\* called deleteMany; a call that counted some table over its trigger has,
\* when it returns, called deleteMany on exactly the tables it counted over
\* their target; and a step removes rows from a table only as the deleteMany
\* of a call that counted some table over its trigger and this table over
\* its target.
C19_CleansTablesOverTarget ==
    /\ [](cl.pc = "done" =>
            /\ cl.needsCleanup = (\E t \in TableIds : OverTrigger(t, cl.count[t]))
            /\ ~cl.needsCleanup => cl.cleaned = {}
            /\ cl.needsCleanup =>
                  cl.cleaned = {t \in TableIds : OverTarget(t, cl.count[t])})
    /\ [][\A t \in TableIds :
            LosesRows(t) =>
                /\ cl.pc = "delete" /\ cl.table = t
                /\ \E u \in TableIds : OverTrigger(u, cl.count[u])
                /\ OverTarget(t, cl.count[t])]_vars

\* A call has returned after cleaning the gossip table, which it counted
\* over its target but not over its trigger, and rows were removed from it;
\* a table that holds rows was counted at or below its target and not
\* cleaned.
C19_Witness ==
    /\ cl.pc = "done"
    /\ cl.needsCleanup
    /\ 1 \in cl.cleaned
    /\ ~OverTrigger(1, cl.count[1])
    /\ RowCount(tableRows[1]) < cl.count[1]
    /\ \E t \in TableIds :
          /\ t \notin cl.cleaned
          /\ cl.count[t] > 0
          /\ RowCount(tableRows[t]) >= cl.count[t]

\* C20: in the step in which a deleteMany of the cleanup lands on a table,
\* and in every step in which a table loses rows, the call holds a cutoff
\* that is not null, exactly the rows whose time is strictly less than the
\* cutoff are removed and every row whose time is >= the cutoff is retained;
\* so every removed row is strictly older than every retained row.
C20_DeletesOnlyBelowCutoff ==
    [][\A t \in TableIds :
            (LosesRows(t) \/ (cl.pc = "delete" /\ cl.table = t /\ t \in cl'.cleaned)) =>
                /\ cl.cutoffDate \in Times
                /\ \A tm \in Times :
                      /\ tm < cl.cutoffDate => tableRows'[t][tm] = 0
                      /\ tm >= cl.cutoffDate => tableRows'[t][tm] = tableRows[t][tm]
                /\ \A old, new \in Times :
                      (tableRows'[t][old] < tableRows[t][old] /\ tableRows'[t][new] > 0)
                          => old < new]_vars

\* A call has returned after a deleteMany removed the oldest rows of a table
\* and retained rows of two different times, several of them at the older
\* one (the cutoff).
C20_Witness ==
    \E t \in TableIds :
        /\ cl.pc = "done"
        /\ t \in cl.cleaned
        /\ RowCount(tableRows[t]) < cl.count[t]
        /\ tableRows[t][1] = 0
        /\ tableRows[t][2] >= 2
        /\ tableRows[t][3] >= 1

\* C21: when a call that counted some table over its trigger has returned,
\* and no row was inserted while it ran, every table holds at most 70% of
\* its threshold, whatever the time values of its rows.
C21_CleanupReachesTarget ==
    (cl.pc = "done" /\ cl.needsCleanup /\ ~cl.inserted) =>
        \A t \in TableIds : ~OverTarget(t, RowCount(tableRows[t]))

\* The times of a table's rows are pairwise distinct.
DistinctTimes(tab) == \A tm \in Times : tab[tm] <= 1

\* C22: in the step in which the deleteMany of a call lands on a table whose
\* time values are pairwise distinct, no row having been inserted since the
\* call started, with c the count read and t = floor(70% of the threshold):
\* exactly c - t rows are removed, exactly t rows remain, and the rows that
\* remain are those with at least c - t rows before them in time order, so
\* that the oldest retained row is the (c - t + 1)-th oldest.
C22_DistinctTimesExactCut ==
    [][\A t \in TableIds :
            (/\ cl.pc = "delete" /\ cl.table = t /\ t \in cl'.cleaned
             /\ ~cl.inserted
             /\ DistinctTimes(tableRows[t])) =>
                LET c == cl.count[t]
                    target == (Threshold(t) * 7) \div 10
                IN /\ c > target
                   /\ RowCount(tableRows[t]) - RowCount(tableRows'[t]) = c - target
                   /\ RowCount(tableRows'[t]) = target
                   /\ \A tm \in Times :
                         tableRows'[t][tm] =
                             IF CountUpTo(tableRows[t], tm) > c - target
                             THEN tableRows[t][tm] ELSE 0]_vars

\* A call has returned after removing the two oldest of three rows of a
\* table, none inserted meanwhile; the newest one remains.
C22_Witness ==
    \E t \in TableIds :
        /\ cl.pc = "done"
        /\ ~cl.inserted
        /\ t \in cl.cleaned
        /\ cl.count[t] = 3
        /\ tableRows[t] = [tm \in Times |-> IF tm = MaxTime THEN 1 ELSE 0]

C24_SnapshotsTwoHoursApart ==
    \A p \in CreditPods : \A i, j \in DOMAIN snap[p] :
        i # j => \/ snap[p][i] - snap[p][j] >= 7200
                 \/ snap[p][j] - snap[p][i] >= 7200

\* Two calls overlap and each has inserted a snapshot of the same pod, one
\* of them from a document that lists the pod twice.
C24_Witness ==
    \E p \in CreditPods :
        /\ cr[1].pc = "findUnique" /\ cr[1].doc[cr[1].i] = p
        /\ cr[2].pc = "findUnique" /\ cr[2].doc[cr[2].i] = p
        /\ cr[1].doc = <<p, p>>
        /\ Len(snap[p]) >= 3

\* C25: a call of ingestCredits always returns.  When the fetch failed or
\* the payload has no pods_credits array, it returns totalProcessed = 0 and
\* totalErrors >= 1; when the payload has the array, every entry has been
\* handled when it returns (an entry that is invalid or hits a store error
\* counts as an error and the loop goes on), so that totalProcessed +
\* totalSkipped + totalErrors is the number of entries.
C25_CreditsCountsAddUp ==
    \A r \in CreditRuns :
        /\ cr[r].pc \in {"idle", "fetch", "findFirst", "create", "findUnique",
                         "update", "returned"}
        /\ cr[r].pc = "returned" =>
              /\ cr[r].fetched \in {"rejected", "noArray"} =>
                    (cr[r].totalProcessed = 0 /\ cr[r].totalErrors >= 1)
              /\ cr[r].fetched = "array" =>
                    cr[r].totalProcessed + cr[r].totalSkipped + cr[r].totalErrors
                        = Len(cr[r].doc)

(***************************************************************************)
(*                          Claims about startup                           *)
(***************************************************************************)
\* Something of the worker runs or is armed: a cycle, a credits call, the
\* cleanup check or a timer.
SomethingRuns ==
    \/ \E i \in Invocations : inv[i] # "unborn"
    \/ \E r \in CreditRuns : cr[r].pc # "idle"
    \/ cl.pc # "idle"
    \/ startup.timers # {}
    \/ nextIngestAt # NULL
    \/ nextCreditsAt # NULL

\* C26: on start nothing runs unless the store ping succeeded and one of the
\* first three seeds answered getPods; otherwise the process exits with code
\* 1.  The first cycle has finished, successfully or not, before the first
\* credits ingestion starts, and the three timers are set only after both.
C26_StartupOrder ==
    /\ [](/\ SomethingRuns => (startup.db = "ok" /\ startup.seedOk)
          /\ (startup.db = "failed" \/ startup.seedsFailed = 3)
                => (mainPc = "exited" /\ startup.exitCode = 1)
          /\ startup.exitCode # NULL => (mainPc = "exited" /\ ~SomethingRuns)
          /\ cr[1].pc # "idle" => inv[0] \in {"ok", "failed"})
    /\ [][startup.timers' # startup.timers
             => /\ inv[0] \in {"ok", "failed"}
                /\ cr[1].pc = "returned"
                /\ startup.timers = {}
                /\ startup.timers' = {"ingest", "credits", "cleanup"}]_vars

\* C26 witness: the first cycle failed, the first credits call returned after
\* it, and the three timers are set.
C26_Witness ==
    /\ mainPc = "timers"
    /\ startup.db = "ok" /\ startup.seedOk
    /\ inv[0] = "failed"
    /\ cr[1].pc = "returned"
    /\ startup.timers = {"ingest", "credits", "cleanup"}

(***************************************************************************)
(*                 Claims about runOnce and the store ping                 *)
(***************************************************************************)
\* C27: when the snapshot computation fails after a cycle, the IngestionRun
\* row already carries finishedAt and the counters, the run has no
\* NetworkSnapshot, and the cycle is not counted as a failure: the run ends
\* as a success, the failure counter is 0 and the breaker is not open.
C27_MetricsFailureKeepsRun ==
    [][\A i \in Invocations :
          (inv[i] = "metrics" /\ inv'[i] # "metrics" /\ runRow'[i] # "snapshot")
          => /\ runRow[i] = "finished"
             /\ runRow'[i] = "finished"
             /\ inv'[i] = "ok"
             /\ ingestionFailureCount' = 0
             /\ ~circuitBreakerOpen'
             /\ effect'[i] # "opened"]_vars

\* C27 witness: a run started by the timer ended as a success with a finished
\* row and no NetworkSnapshot.
C27_Witness ==
    \E i \in TimerSlots : inv[i] = "ok" /\ runRow[i] = "finished"

\* C28: when the store ping of a scheduled tick fails, a reconnect is
\* attempted.  When the reconnect fails the cycle is skipped: the tick creates
\* no IngestionRun row and does not call runIngestionCycle, and the breaker is
\* left as it was.  When the reconnect succeeds the tick goes on, in the same
\* invocation, to the breaker check and the call of runOnce.
C28_UnhealthyStoreSkipsCycle ==
    /\ [](\A i \in TimerSlots :
             /\ dbHealthy[i] = "false" => (inv[i] = "unhealthy" /\ runRow[i] = "none"
                                         /\ gate[i] = "none")
             /\ inv[i] = "reconnect" => (dbHealthy[i] = "none" /\ runRow[i] = "none")
             /\ inv[i] \in InFlightPcs => dbHealthy[i] = "true")
    /\ [][\A i \in TimerSlots :
             /\ (inv[i] = "ping" /\ inv'[i] # "ping")
                => (inv'[i] = "reconnect" \/ dbHealthy'[i] = "true")
             /\ (inv[i] = "reconnect" /\ dbHealthy'[i] = "true")
                => /\ inv'[i] \in {"create", "skipped"}
                   /\ inv'[i] = "skipped" <=> gate'[i] = "blocked"
                   /\ nextIngestAt' = nextIngestAt
             /\ (inv[i] = "reconnect" /\ dbHealthy'[i] = "false")
                => /\ ingestionFailureCount' = ingestionFailureCount
                   /\ circuitBreakerOpen' = circuitBreakerOpen
                   /\ circuitBreakerOpenTime' = circuitBreakerOpenTime]_vars

\* C28 witness: one tick was skipped after a failed reconnect, and another
\* tick's cycle is running after a reconnect that succeeded.
C28_Witness ==
    \E i, j \in TimerSlots :
        /\ inv[i] = "unhealthy" /\ dbHealthy[i] = "false" /\ runRow[i] = "none"
        /\ inv[j] = "cycle" /\ dbHealthy[j] = "true"

(***************************************************************************)
(*               Claims about isPublic and concurrent writes               *)
(***************************************************************************)
\* C29: after a get-stats probe of a node has succeeded, the node's isPublic
\* is true.
C29_ProbeSuccessSetsPublic ==
    \A c \in Cycles : \A j \in Probes(c) :
        probe[c][j].pc = "success" => pnode[probe[c][j].pnodeId].isPublic

\* The Stage B branches of cycle c that are about peer p and whose write to
\* the Pnode row (the upsert or the delayed reset) is under way.
WritingBranches(c, p) ==
    {sk \in BranchesAt(c, {"upsert", "reset"}) : PeerOf(c, sk[1], sk[2]) = p}

\* The probes of cycle c that are about peer p and are under way.
RunningProbes(c, p) ==
    {j \in Probes(c) : probe[c][j].pnodeId = p
                       /\ probe[c][j].pc \notin ProbeFinal \cup {"wait"}}

\* C30: within one cycle no Pnode row is written by two branches that run
\* concurrently: at any time at most one branch of the cycle, gossip or
\* probe, has a write to the row of a given peer under way.
C30_OneWriterPerPeer ==
    \A c \in Cycles : \A p \in Peers :
        Cardinality(WritingBranches(c, p)) + Cardinality(RunningProbes(c, p)) <= 1

(***************************************************************************)
(*             Claims about the order of writes within a peer              *)
(***************************************************************************)
\* C31: in each (seed, peer) branch of Stage B the GossipObservation insert
\* of the cycle has completed before the peer's row is read for eligibility:
\* a branch that has reached the read holds a row with observedAt equal to
\* the cycle's start, a branch whose insert failed holds none and yields no
\* task, and every probe of the cycle comes from a branch that wrote its row.
C31_GossipBeforeEligibility ==
    \A c \in Cycles :
        /\ \A s \in Seeds : \A k \in Branches(c, s) :
              LET b == branch[<<c, s>>][k] IN
              /\ b.pc \in {"read", "reset", "task", "backoff", "rejRead", "rejReset"}
                    => b.observedAt = cyc[c].now
              /\ b.pc \in {"upsert", "gossip", "rejUpsert", "rejGossip"}
                    => b.observedAt = NULL
        /\ \A j \in Probes(c) :
              \E k \in Branches(c, probe[c][j].seed) :
                  /\ PeerOf(c, probe[c][j].seed, k) = probe[c][j].pnodeId
                  /\ branch[<<c, probe[c][j].seed>>][k].pc = "task"
                  /\ branch[<<c, probe[c][j].seed>>][k].observedAt = cyc[c].now

\* C31 witness: a peer is being probed after its gossip row was written,
\* while another branch of the cycle rejected in its gossip insert.
C31_Witness ==
    \E c \in Cycles :
        /\ \E j \in Probes(c) : probe[c][j].pc = "getStats"
        /\ BranchesAt(c, {"rejGossip"}) # {}
        /\ GossipRows(c, 1, 1) # {}

statsSuccess(c) == Cardinality({j \in Probes(c) : probe[c][j].pc = "success"})

\* lines 451-470: the fulfilled results with success: false and the rejected ones.
statsFailure(c) ==
    Cardinality({j \in Probes(c) : probe[c][j].pc \in {"failure", "rejected"}})

\* C33: in every cycle statsSuccess equals the number of StatsSample rows the
\* cycle inserted, and a peer whose failureCount the cycle incremented has no
\* StatsSample of that cycle, also when a store write fails after getStats
\* returned.
C33_SuccessCountsSamples ==
    \A c \in Cycles :
        cyc[c].pc = "done"
        => /\ statsSuccess(c) = Cardinality({j \in Probes(c) : probe[c][j].sample})
           /\ \A j \in Probes(c) :
                 probe[c][j].pc = "failure" => StatsSamples(c, probe[c][j].pnodeId) = {}

\* line 479: backoffCount of the summary.
backoffCount(c) == Cardinality(backoffPnodeIds(c))

\* line 480: observed of the summary.
observed(c) == Cardinality(globalObservedPnodeIds(c))

\* The peers that cycle c probes.
ProbedPeers(c) == {probe[c][j].pnodeId : j \in Probes(c)}

\* C34: every cycle summary has statsSuccess + statsFailure = statsAttempts;
\* for a cycle that overlaps no other cycle the probed peers and the backoff
\* set are disjoint subsets of the observed set, so that
\* statsAttempts + backoffCount <= observed.
C34_SummaryCountersAddUp ==
    \A c \in Cycles :
        cyc[c].pc = "done"
        => /\ statsSuccess(c) + statsFailure(c) = statsAttempts(c)
           /\ (\A d \in Cycles \ {c} : cyc[d].pc = "idle")
              => /\ ProbedPeers(c) \cap backoffPnodeIds(c) = {}
                 /\ ProbedPeers(c) \subseteq globalObservedPnodeIds(c)
                 /\ backoffPnodeIds(c) \subseteq globalObservedPnodeIds(c)
                 /\ statsAttempts(c) = Cardinality(ProbedPeers(c))
                 /\ statsAttempts(c) + backoffCount(c) <= observed(c)

\* C34 witness: a cycle that ran alone has returned a summary with one
\* successful probe, one peer in backoff and two peers observed.
C34_Witness ==
    \E c \in Cycles :
        /\ cyc[c].pc = "done"
        /\ \A d \in Cycles \ {c} : cyc[d].pc = "idle"
        /\ statsSuccess(c) = 1 /\ statsAttempts(c) = 1
        /\ backoffCount(c) = 1 /\ observed(c) = 2

\* C35: in every state, a peer whose lastStatsSuccessAt and
\* lastStatsAttemptAt are both set has lastStatsSuccessAt <= lastStatsAttemptAt,
\* whatever the order in which cycles start and their updates land.
C35_SuccessNotAfterAttempt ==
    \A p \in Peers :
        (pnode[p].lastStatsSuccessAt # NULL /\ pnode[p].lastStatsAttemptAt # NULL)
        => pnode[p].lastStatsSuccessAt <= pnode[p].lastStatsAttemptAt

(***************************************************************************)
(*                 Claims about the derived rates (SpecRates)              *)
(***************************************************************************)
\* The rate the statement gives for one counter: null without a prior
\* sample, with the counter missing on either side, with floor(delta-t) <= 5 s
\* or with a negative delta; otherwise delta-counter over delta-t.
RateOf(prevSample, prevCounter, newCounter, deltaMs) ==
    IF \/ ~prevSample.exists
       \/ prevCounter = NULL
       \/ newCounter = NULL
       \/ deltaMs \div 1000 <= 5
       \/ newCounter - prevCounter < 0
    THEN <<>>
    ELSE <<newCounter - prevCounter, deltaMs \div 1000>>

\* C36: each packet rate is derived from its own counter alone: it is null
\* without a prior sample, when that counter is missing in either sample,
\* when floor(delta-t) <= 5 s or when the counter went down, and delta-counter
\* over delta-t otherwise, whether or not the other counter is present.
C36_PacketRatesIndependent ==
    rate.pc = "packets"
    => LET prev == rate.prevSample
           latest == rate.latest
           deltaMs == latest.timestamp - prev.timestamp
       IN /\ rate.result.packetsInPerSec
               = RateOf(prev, prev.packetsReceivedCumulative,
                        latest.packetsReceivedCumulative, deltaMs)
          /\ rate.result.packetsOutPerSec
               = RateOf(prev, prev.packetsSentCumulative,
                        latest.packetsSentCumulative, deltaMs)

\* C37: a wide integer, or a delta of wide integers, that is negative or
\* beyond the safe float range is converted to null, never to zero or to
\* another number, and no rate is derived from it.
C37_UnsafeValuesBecomeNull ==
    /\ rate.pc = "converted"
       => ((rate.value # NULL /\ (rate.value < 0 \/ rate.value > MAX_SAFE_INTEGER))
           => rate.result.converted = NULL)
    /\ rate.pc = "bytes"
       => ((rate.result.bytes.deltaBytes # NULL
            /\ rate.result.bytes.deltaBytes > MAX_SAFE_INTEGER)
           => rate.result.bytes.bytesPerSecond = <<>>)
    /\ rate.pc = "packets"
       => /\ (rate.latest.packetsReceivedCumulative
                 - rate.prevSample.packetsReceivedCumulative > MAX_SAFE_INTEGER)
             => rate.result.packetsInPerSec = <<>>
          /\ (rate.latest.packetsSentCumulative
                 - rate.prevSample.packetsSentCumulative > MAX_SAFE_INTEGER)
             => rate.result.packetsOutPerSec = <<>>

(***************************************************************************)
(*              Claims about the network metrics (SpecMetrics)             *)
(***************************************************************************)
\* The least integer m with m >= (p / 100) * n, which is Math.ceil of it.
Ceiling(p, n) ==
    CHOOSE m \in 0 .. n : /\ 100 * m >= p * n
                          /\ \A j \in 0 .. n : 100 * j >= p * n => m <= j

Clamp(i, lo, hi) == IF i < lo THEN lo ELSE IF i > hi THEN hi ELSE i

\* The sorted lists percentile is applied to, once the peers have been read.
SortedInputs ==
    IF net.pc \in {"recentObs", "create", "returned", "rejected"}
    THEN {net.health.uptimes, net.health.credits} ELSE {<<>>}

\* C38: percentile returns 0 for an empty list and otherwise the element at
\* index clamp(ceil(p / 100 * n) - 1, 0, n - 1) of its ascending input, a
\* member of the input; the median is never above the p90; and the snapshot
\* of an empty peer set has reachablePercent, both uptime figures and both
\* storage totals at 0.
C38_PercentileOfSortedInput ==
    /\ \A s \in SortedInputs : \A p \in Percentiles :
          /\ s = <<>> => percentile(s, p) = 0
          /\ s # <<>> =>
                /\ percentile(s, p) = s[Clamp(Ceiling(p, Len(s)) - 1, 0, Len(s) - 1) + 1]
                /\ percentile(s, p) \in Range(s)
          /\ percentile(s, 50) <= percentile(s, 90)
    /\ net.networkSnapshot.exists =>
          /\ net.networkSnapshot.medianUptimeSeconds <= net.networkSnapshot.p90UptimeSeconds
          /\ net.networkSnapshot.medianUptimeSeconds \in Range(net.health.uptimes) \cup {0}
          /\ net.networkSnapshot.totalNodes = 0 =>
                /\ net.networkSnapshot.reachablePercent = Zero
                /\ net.networkSnapshot.medianUptimeSeconds = 0
                /\ net.networkSnapshot.p90UptimeSeconds = 0
                /\ net.networkSnapshot.totalStorageCommitted = 0
                /\ net.networkSnapshot.totalStorageUsed = 0

\* A snapshot of two peers with different uptimes: the median is the lower
\* one and the p90 the higher one.
C38_Witness ==
    /\ net.networkSnapshot.exists
    /\ net.health.uptimes = <<3, 7>>
    /\ net.networkSnapshot.medianUptimeSeconds = 3
    /\ net.networkSnapshot.p90UptimeSeconds = 7

\* The sum of nodeCount over a set of VersionStat rows.
RECURSIVE SumNodeCount(_)
SumNodeCount(rows) ==
    IF rows = {} THEN 0
    ELSE LET r == CHOOSE x \in rows : TRUE
         IN  r.nodeCount + SumNodeCount(rows \ {r})

\* C39: a snapshot that is written has reachableNodes + unreachableNodes =
\* totalNodes and nodesFailingStats <= nodesBackedOff <= totalNodes, its
\* VersionStat counts sum to totalNodes, and it has exactly one
\* SeedVisibility row per configured seed, also for a seed without recent
\* observations, with nodesSeen = freshNodes + staleNodes + offlineNodes; and
\* no IngestionRun has more than one snapshot.
C39_SnapshotIsConsistent ==
    /\ net.networkSnapshot.exists =>
          LET snapshot == net.networkSnapshot
          IN  /\ snapshot.reachableNodes + snapshot.unreachableNodes = snapshot.totalNodes
              /\ snapshot.nodesFailingStats <= snapshot.nodesBackedOff
              /\ snapshot.nodesBackedOff <= snapshot.totalNodes
              /\ SumNodeCount(snapshot.versionStats) = snapshot.totalNodes
              /\ \A s \in Seeds :
                    Cardinality({r \in snapshot.seedVisibility : r.seedBaseUrl = s}) = 1
              /\ \A r \in snapshot.seedVisibility :
                    /\ r.seedBaseUrl \in Seeds
                    /\ r.nodesSeen = r.freshNodes + r.staleNodes + r.offlineNodes
              /\ net.snapshotsOf[snapshot.ingestionRunId] = 1
    /\ \A run \in 1 .. MaxRuns : net.snapshotsOf[run] <= 1

\* The snapshot of a second run: two peers of different versions, both in
\* backoff and one of them failing, one seed that saw two peers and one seed
\* without recent observations.
C39_Witness ==
    /\ net.networkSnapshot.exists
    /\ net.networkSnapshot.ingestionRunId = 2
    /\ net.snapshotsOf[1] = 1
    /\ net.networkSnapshot.totalNodes = 2
    /\ net.networkSnapshot.nodesBackedOff = 2
    /\ net.networkSnapshot.nodesFailingStats = 1
    /\ Cardinality(net.networkSnapshot.versionStats) = 2
    /\ \E r \in net.networkSnapshot.seedVisibility :
          r.nodesSeen = 2 /\ r.freshNodes = 1 /\ r.offlineNodes = 1
    /\ \E r \in net.networkSnapshot.seedVisibility : r.nodesSeen = 0

(***************************************************************************)
(*                  Claims about prpcCall (SpecRpc)                        *)
(***************************************************************************)
RpcErrors ==
    {"timeout", "httpError", "parseError", "responseError", "requestFailed",
     "requestTimeout", "prpcError", "missingResult"}

\* The promise and the call agree, and neither has been settled twice.
SettledOnce ==
    /\ rpc.settled <= 1
    /\ rpc.isResolved <=> rpc.settled = 1
    /\ rpc.isResolved <=> rpc.promise # "pending"
    /\ ~rpc.isResolved => rpc.timerPending
    /\ rpc.call \in {"pending", "returned"} \cup RpcErrors
    /\ rpc.call # "pending" => rpc.promise # "pending"
    /\ rpc.call = "returned" <=> (rpc.call # "pending" /\ rpc.json = "result")

\* Once the timer has fired the request is destroyed and the outcome is the
\* timeout error.
TimeoutWins ==
    rpc.fired =>
        /\ rpc.req = "destroyed"
        /\ rpc.promise = "timeout"
        /\ rpc.call \in {"pending", "timeout"}

\* An outcome, once there, stays.
OutcomeKept ==
    /\ rpc.promise # "pending" => rpc'.promise = rpc.promise /\ rpc'.json = rpc.json
    /\ rpc.call # "pending" => rpc'.call = rpc.call

\* C40: every prpcCall settles exactly once, with a result or with a single
\* error, in every order of the timer firing, the response ending and the
\* socket errors; when the timer fires first the request is destroyed, the
\* call fails with the timeout error, and a response or an error that
\* arrives afterwards does not change the outcome.
C40_SettlesExactlyOnce ==
    /\ [](SettledOnce /\ TimeoutWins)
    /\ [][OutcomeKept]_vars
    /\ <>(rpc.call # "pending")

\* The timer fired first; the response, its end and a socket error arrived
\* afterwards; the call has failed with the timeout error.
C40_Witness ==
    /\ rpc.fired
    /\ rpc.late = 3
    /\ rpc.res = "ended"
    /\ rpc.reqErrored
    /\ rpc.settled = 1
    /\ rpc.call = "timeout"

====
